---- MODULE Spec2Model ----
(***************************************************************************)
(* Model of the draw-command batching and submission engine of             *)
(* pob-runtime-rs: the vertex-buffer renderer (src/graphics.rs), the       *)
(* RedrawRequested frame handler (src/main.rs) and the host functions that *)
(* feed the shared queues (src/lua_host.rs).                               *)
(*                                                                         *)
(* Coordinates and colours are f32 in the source; the model uses small     *)
(* integers for coordinates and exact fractions for colour channels.       *)
(* Indices are 0-based as in the source; a TLA+ sequence element           *)
(* cmds[k + 1] is the source's cmds[k].                                    *)
(***************************************************************************)
EXTENDS Integers, Sequences, FiniteSets, TLC

(***************************************************************************)
(* Bounds of the model.                                                    *)
(***************************************************************************)
\* Largest vertex-buffer capacity, in vertices, the model creates the
\* renderer with (the source allocates 131072 vertices).
MaxCapVertices == 12
\* Longest command list handed to one frame in SpecDraw.
MaxCmds == 3
\* Number of commands the host functions (DrawImage, DrawImageQuad,
\* DrawString) append in one run of Spec, image handles created included.
MaxAppends == 3
\* Number of image handles the host creates in one run of Spec.
MaxHandles == 2
\* Number of SetDrawColor and SetViewport calls that change the draw state in
\* one run of Spec.
MaxSets == 2
\* Number of texture uploads the host queues in one run of Spec.
MaxUploads == 1
\* Number of pieces (TextPieces) a text of SpecText is made of.
MaxPieces == 4
\* Number of uploads pending when the frame of SpecUploads starts.
MaxPending == 2

(***************************************************************************)
(* Program constants.                                                      *)
(***************************************************************************)
\* std::mem::size_of::<Vertex>(): 2 + 2 + 4 f32 fields.
VertexSize == 32

\* (g.config.width, g.config.height), scaled down from 1280 x 720.
screen_size == <<3, 2>>

None == <<"None">>
Some(v) == <<"Some", v>>

\* An f32 colour channel with the value n / d, as the reduced fraction <<n, d>>.
RECURSIVE Gcd(_, _)
Gcd(a, b) == IF b = 0 THEN a ELSE Gcd(b, a % b)
F32(n, d) == LET g == Gcd(n, d) IN <<n \div g, d \div g>>
Zero == F32(0, 1)
Half == F32(1, 2)
One == F32(1, 1)

White == <<One, One, One, One>>
Red == <<One, Zero, Zero, One>>
Green == <<Zero, One, Zero, One>>
Blue == <<Zero, Zero, One, One>>

\* Pixel data of the 1x1 texture Renderer::new creates for id 0.
WhitePixels == <<255, 255, 255, 255>>
\* Pixel data of an image the host decodes (contents are opaque to the core).
ImagePixels == <<10, 20, 30, 255>>

(***************************************************************************)
(* Draw commands (DrawCmd, DrawQuadCmd, TextCmd, DrawItem).                *)
(***************************************************************************)
Rect(x, y, w, h, color, texture_id, uv, clip) ==
    [kind |-> "Rect", x |-> x, y |-> y, w |-> w, h |-> h, color |-> color,
     texture_id |-> texture_id, uv |-> uv, clip |-> clip]

Quad(texture_id, color, clip, positions, uvs) ==
    [kind |-> "Quad", texture_id |-> texture_id, color |-> color, clip |-> clip,
     positions |-> positions, uvs |-> uvs]

Text(x, y, size, text, color, align, font, clip) ==
    [kind |-> "Text", x |-> x, y |-> y, size |-> size, text |-> text,
     color |-> color, align |-> align, font |-> font, clip |-> clip]

IsGeometry(item) == item.kind \in {"Rect", "Quad"}

Vertex(position, uv, color) == [position |-> position, uv |-> uv, color |-> color]

\* A freshly created wgpu buffer is zero-initialised.
ZeroVertex == Vertex(<<0, 0>>, <<0, 0>>, <<Zero, Zero, Zero, Zero>>)

(***************************************************************************)
(* Renderer::draw, the closures and the per-item expansion.                *)
(***************************************************************************)
tid_of(item) == IF item.kind = "Text" THEN 0 ELSE item.texture_id

clip_of(item) == IF item.kind = "Text" THEN None ELSE item.clip

\* Mutant of GroupEnd: the scan compares the texture id only.
RECURSIVE GroupEndByTexture(_, _, _)
GroupEndByTexture(cmds, start, j) ==
    IF /\ j < Len(cmds)
       /\ tid_of(cmds[j + 1]) = tid_of(cmds[start + 1])
    THEN GroupEndByTexture(cmds, start, j + 1)
    ELSE j

\* The inner while loop of draw: the first index i >= j at which the scan
\* started at `start` stops.
RECURSIVE GroupEnd(_, _, _)
GroupEnd(cmds, start, j) ==
    IF /\ j < Len(cmds)
       /\ tid_of(cmds[j + 1]) = tid_of(cmds[start + 1])
       /\ clip_of(cmds[j + 1]) = clip_of(cmds[start + 1])
    THEN GroupEnd(cmds, start, j + 1)
    ELSE j

\* Mutant of RectVertices: the UV rectangle is put in order (left <= right,
\* top <= bottom) before it is used.
RectVerticesOrderedUv(cmd) ==
    LET x2 == cmd.x + cmd.w
        y2 == cmd.y + cmd.h
        l == IF cmd.uv[1] <= cmd.uv[3] THEN cmd.uv[1] ELSE cmd.uv[3]
        r == IF cmd.uv[1] <= cmd.uv[3] THEN cmd.uv[3] ELSE cmd.uv[1]
        t == IF cmd.uv[2] <= cmd.uv[4] THEN cmd.uv[2] ELSE cmd.uv[4]
        b == IF cmd.uv[2] <= cmd.uv[4] THEN cmd.uv[4] ELSE cmd.uv[2]
        tl == Vertex(<<cmd.x, cmd.y>>, <<l, t>>, cmd.color)
        tr == Vertex(<<x2, cmd.y>>, <<r, t>>, cmd.color)
        bl == Vertex(<<cmd.x, y2>>, <<l, b>>, cmd.color)
        br == Vertex(<<x2, y2>>, <<r, b>>, cmd.color)
    IN  <<tl, tr, bl, tr, br, bl>>

\* DrawItem::Rect(cmd): the corners and the two triangles pushed.
RectVertices(cmd) ==
    LET x2 == cmd.x + cmd.w
        y2 == cmd.y + cmd.h
        tl == Vertex(<<cmd.x, cmd.y>>, <<cmd.uv[1], cmd.uv[2]>>, cmd.color)
        tr == Vertex(<<x2, cmd.y>>, <<cmd.uv[3], cmd.uv[2]>>, cmd.color)
        bl == Vertex(<<cmd.x, y2>>, <<cmd.uv[1], cmd.uv[4]>>, cmd.color)
        br == Vertex(<<x2, y2>>, <<cmd.uv[3], cmd.uv[4]>>, cmd.color)
    IN  <<tl, tr, bl, tr, br, bl>>

\* Mutant of QuadVertices: the second triangle is made of the corners 1, 2, 3
\* (a strip) instead of 0, 2, 3.
QuadVerticesStrip(cmd) ==
    LET v(k) == Vertex(cmd.positions[k], cmd.uvs[k], cmd.color)
    IN  <<v(1), v(2), v(3), v(2), v(3), v(4)>>

\* DrawItem::Quad(cmd): the six vertices pushed.
QuadVertices(cmd) ==
    LET v(k) == Vertex(cmd.positions[k], cmd.uvs[k], cmd.color)
    IN  <<v(1), v(2), v(3), v(1), v(3), v(4)>>

ItemVertices(item) ==
    CASE item.kind = "Rect" -> RectVertices(item)
      [] item.kind = "Quad" -> QuadVertices(item)
      [] item.kind = "Text" -> <<>>

\* Mutant of GroupVertices: each item's vertices are put in front of the
\* earlier ones.
RECURSIVE GroupVerticesPrepend(_, _, _)
GroupVerticesPrepend(cmds, start, i) ==
    IF start >= i THEN <<>>
    ELSE GroupVerticesPrepend(cmds, start + 1, i) \o ItemVertices(cmds[start + 1])

\* The `for item in &cmds[start..i]` loop: the vertices of cmds[start..i).
RECURSIVE GroupVertices(_, _, _)
GroupVertices(cmds, start, i) ==
    IF start >= i THEN <<>>
    ELSE ItemVertices(cmds[start + 1]) \o GroupVertices(cmds, start + 1, i)

\* Mutant of ResolveBindGroup: no fallback, the lookup of an unknown id fails.
ResolveBindGroupUnwrap(registry, tid) ==
    IF tid \in DOMAIN registry THEN registry[tid] ELSE [panic |-> "unwrap on None"]

\* self.textures.get(&tid).unwrap_or_else(|| self.textures.get(&0).unwrap())
ResolveBindGroup(registry, tid) ==
    IF tid \in DOMAIN registry THEN registry[tid] ELSE registry[0]

\* Mutant of ScissorOf: width and height are passed on as they are.
ScissorOfUnclamped(clip) ==
    IF clip = None
    THEN <<0, 0, screen_size[1], screen_size[2]>>
    ELSE clip[2]

\* The scissor rectangle draw sets for a group whose first item has `clip`.
ScissorOf(clip) ==
    IF clip = None
    THEN <<0, 0, screen_size[1], screen_size[2]>>
    ELSE LET c == clip[2]
             Max(a, b) == IF a >= b THEN a ELSE b
         IN  <<c[1], c[2], Max(c[3], 1), Max(c[4], 1)>>

\* Mutant of WriteBuffer: the vertices are written at the start of the buffer.
WriteBufferAtStart(buf, offset, vertices) ==
    [k \in DOMAIN buf |-> IF k <= Len(vertices) THEN vertices[k] ELSE buf[k]]

\* queue.write_buffer(&self.vertex_buffer, offset, vertices)
WriteBuffer(buf, offset, vertices) ==
    LET first == offset \div VertexSize
    IN  [k \in DOMAIN buf |->
            IF k > first /\ k <= first + Len(vertices)
            THEN vertices[k - first] ELSE buf[k]]


(***************************************************************************)
(* Texture registry (Renderer::new, Renderer::load_texture).               *)
(***************************************************************************)
\* A wgpu::BindGroup: `serial` is the identity of the object (the n-th bind
\* group the renderer created), the other fields describe the texture its
\* view shows.
BindGroup(serial, rgba, width, height) ==
    [serial |-> serial, rgba |-> rgba, width |-> width, height |-> height]

\* white_bind_group of Renderer::new.
white_bind_group == BindGroup(0, WhitePixels, 1, 1)

TextureUploadCmd(id, rgba, width, height) ==
    [id |-> id, rgba |-> rgba, width |-> width, height |-> height]

\* Mutant of load_texture: an id that is registered keeps its bind group.
load_texture_keep(registry, serial, id, rgba, width, height) ==
    IF id \in DOMAIN registry THEN registry
    ELSE (id :> BindGroup(serial, rgba, width, height)) @@ registry

\* self.textures.insert(id, bind_group): adds the id or replaces its entry.
load_texture(registry, serial, id, rgba, width, height) ==
    (id :> BindGroup(serial, rgba, width, height)) @@ registry

\* `for upload in uploads { g.renderer.load_texture(...) }`; the k-th upload
\* creates the bind group with serial `serial + k - 1`.
RECURSIVE LoadUploads(_, _, _)
LoadUploads(registry, serial, uploads) ==
    IF uploads = <<>> THEN registry
    ELSE LET u == Head(uploads)
         IN  LoadUploads(load_texture(registry, serial, u.id, u.rgba, u.width, u.height),
                         serial + 1, Tail(uploads))

(***************************************************************************)
(* Text markup (parse_color_spans, pob_digit_color, strip_pob_escapes).    *)
(* A text is a sequence of characters; a character is named by a string,   *)
(* "euro" naming the three-byte character U+20AC.  parse_color_spans works *)
(* on the UTF-8 bytes of the text: a byte is <<character, k>>, the k-th    *)
(* byte of that character.                                                 *)
(***************************************************************************)
DecDigits == <<"0", "1", "2", "3", "4", "5", "6", "7", "8", "9">>
LowerHex == DecDigits \o <<"a", "b", "c", "d", "e", "f">>
UpperHex == DecDigits \o <<"A", "B", "C", "D", "E", "F">>

Range(s) == {s[k] : k \in DOMAIN s}

\* u8::is_ascii_digit / char '0'..='9'
is_ascii_digit(c) == c \in Range(DecDigits)

\* char::is_ascii_hexdigit
is_ascii_hexdigit(c) == c \in Range(LowerHex) \cup Range(UpperHex)

\* char::to_digit(16): the value of a hex digit.
to_digit(c) ==
    IF c \in Range(LowerHex) THEN (CHOOSE k \in 1..16 : LowerHex[k] = c) - 1
    ELSE (CHOOSE k \in 1..16 : UpperHex[k] = c) - 1

\* Number of bytes of the UTF-8 encoding of a character.
len_utf8(c) == IF c = "euro" THEN 3 ELSE 1

\* str::as_bytes
RECURSIVE as_bytes(_)
as_bytes(text) ==
    IF text = <<>> THEN <<>>
    ELSE [k \in 1..len_utf8(Head(text)) |-> <<Head(text), k>>] \o as_bytes(Tail(text))

\* str::is_char_boundary, on the bytes of the text (idx is 0-based).
is_char_boundary(bytes, idx) ==
    \/ idx = 0
    \/ idx = Len(bytes)
    \/ idx < Len(bytes) /\ bytes[idx + 1][2] = 1

\* &text[a..b] panics unless a <= b <= len and both are character boundaries.
SliceOk(bytes, a, b) ==
    a <= b /\ b <= Len(bytes) /\ is_char_boundary(bytes, a) /\ is_char_boundary(bytes, b)

\* The characters of &text[a..b].
RECURSIVE Slice(_, _, _)
Slice(bytes, a, b) ==
    IF a >= b THEN <<>>
    ELSE (IF bytes[a + 1][2] = 1 THEN <<bytes[a + 1][1]>> ELSE <<>>) \o Slice(bytes, a + 1, b)

RECURSIVE HexValue(_)
HexValue(digits) ==
    IF digits = <<>> THEN 0
    ELSE 16 * HexValue(SubSeq(digits, 1, Len(digits) - 1)) + to_digit(digits[Len(digits)])

\* u32::from_str_radix(s, 16): an optional leading "+", then one or more hex
\* digits (six digits cannot overflow a u32).
from_str_radix(s) ==
    LET digits == IF s # <<>> /\ Head(s) = "+" THEN Tail(s) ELSE s
    IN  IF digits = <<>> \/ \E k \in DOMAIN digits : ~is_ascii_hexdigit(digits[k])
        THEN [ok |-> FALSE, value |-> 0]
        ELSE [ok |-> TRUE, value |-> HexValue(digits)]

\* Mutant of pob_digit_color: the palette is read one entry too far.
pob_digit_color_shifted(digit, alpha) ==
    LET palette == << <<Zero, Zero, Zero>>, <<One, Zero, Zero>>, <<Zero, One, Zero>>,
                      <<Zero, Zero, One>>, <<One, One, Zero>>, <<Half, Half, Half>>,
                      <<Half, Half, Half>>, <<One, One, One>>,
                      <<F32(3, 4), F32(3, 4), F32(3, 4)>>,
                      <<F32(3, 10), F32(3, 10), F32(3, 10)>> >>
        rgb == palette[((digit + 1) % 10) + 1]
    IN  <<rgb[1], rgb[2], rgb[3], alpha>>

\* pob_digit_color: the palette of ^0 .. ^9
pob_digit_color(digit, alpha) ==
    LET palette == << <<Zero, Zero, Zero>>, <<One, Zero, Zero>>, <<Zero, One, Zero>>,
                      <<Zero, Zero, One>>, <<One, One, Zero>>, <<Half, Half, Half>>,
                      <<Half, Half, Half>>, <<One, One, One>>,
                      <<F32(3, 4), F32(3, 4), F32(3, 4)>>,
                      <<F32(3, 10), F32(3, 10), F32(3, 10)>> >>
        rgb == IF digit \in 0..9 THEN palette[digit + 1] ELSE <<One, One, One>>
    IN  <<rgb[1], rgb[2], rgb[3], alpha>>

\* The colour of ^xRRGGBB: each byte of hex over 255, alpha inherited.
HexColor(hex, alpha) ==
    <<F32((hex \div 65536) % 256, 255), F32((hex \div 256) % 256, 255),
      F32(hex % 256, 255), alpha>>

\* The outcome of a call that panicked.
Panicked == [panic |-> TRUE, spans |-> <<>>]
Returned(spans) == [panic |-> FALSE, spans |-> spans]

\* The code after the loop of parse_color_spans.
ParseEnd(bytes, spans, color, start) ==
    IF start < Len(bytes)
    THEN IF SliceOk(bytes, start, Len(bytes))
         THEN Returned(Append(spans, <<Slice(bytes, start, Len(bytes)), color>>))
         ELSE Panicked
    ELSE Returned(spans)

\* The loop of parse_color_spans from index i on.
RECURSIVE ParseLoop(_, _, _, _, _, _)
ParseLoop(bytes, alpha, spans, color, start, i) ==
    IF i >= Len(bytes) THEN ParseEnd(bytes, spans, color, start)
    ELSE IF bytes[i + 1] # <<"^", 1>>
    THEN ParseLoop(bytes, alpha, spans, color, start, i + 1)
    ELSE IF i > start /\ ~SliceOk(bytes, start, i) THEN Panicked
    ELSE
      LET pushed == IF i > start
                    THEN Append(spans, <<Slice(bytes, start, i), color>>)
                    ELSE spans
          j == i + 1
      IN  IF j >= Len(bytes)
          THEN \* start = i; break
               ParseEnd(bytes, pushed, color, j)
          ELSE IF bytes[j + 1][1] \in {"X", "x"} /\ j + 7 <= Len(bytes)
          THEN IF ~SliceOk(bytes, j + 1, j + 7) THEN Panicked
               ELSE LET hex == from_str_radix(Slice(bytes, j + 1, j + 7))
                        c2 == IF hex.ok THEN HexColor(hex.value, alpha) ELSE color
                    IN  ParseLoop(bytes, alpha, pushed, c2, j + 7, j + 7)
          ELSE IF is_ascii_digit(bytes[j + 1][1])
          THEN ParseLoop(bytes, alpha, pushed,
                         pob_digit_color(to_digit(bytes[j + 1][1]), alpha), j + 1, j + 1)
          ELSE ParseLoop(bytes, alpha, pushed, color, j, j)

\* parse_color_spans(text, default_color): the spans <<slice, colour>>, or a
\* panic.
parse_color_spans(text, default_color) ==
    ParseLoop(as_bytes(text), default_color[4], <<>>, default_color, 0, 0)

\* The `for _ in 0..6` loop of strip_pob_escapes: drops up to n leading hex
\* digits.
RECURSIVE SkipHex(_, _)
SkipHex(chars, n) ==
    IF n = 0 \/ chars = <<>> \/ ~is_ascii_hexdigit(Head(chars)) THEN chars
    ELSE SkipHex(Tail(chars), n - 1)

\* strip_pob_escapes(s)
RECURSIVE strip_pob_escapes(_)
strip_pob_escapes(s) ==
    IF s = <<>> THEN <<>>
    ELSE IF Head(s) # "^" THEN <<Head(s)>> \o strip_pob_escapes(Tail(s))
    ELSE LET rest == Tail(s)
         IN  IF rest # <<>> /\ is_ascii_digit(Head(rest))
             THEN strip_pob_escapes(Tail(rest))
             ELSE IF rest # <<>> /\ Head(rest) = "x"
             THEN strip_pob_escapes(SkipHex(Tail(rest), 6))
             ELSE <<"^">> \o strip_pob_escapes(rest)

(***************************************************************************)
(* State.                                                                  *)
(***************************************************************************)
VARIABLES
    \* Renderer
    textures,             \* HashMap<u32, BindGroup>
    byte_offset,          \* cursor into the vertex buffer, in bytes
    vertex_buffer,        \* contents of the GPU vertex buffer, one entry per vertex
    bind_groups_created,  \* number of bind groups load_texture has created
    \* shared queues (Arc<Mutex<Vec<_>>>)
    draw_queue,
    texture_queue,
    text_queue,           \* the TextQueue DrawString pushes to
    \* host state (closures of LuaHost::new)
    color,                \* current draw colour
    viewport,             \* current viewport: None or Some(<<x, y, w, h>>)
    next_id,              \* next texture id NewImageHandle hands out
    image_handles,        \* the tables NewImageHandle returned, in call order
    \* the RedrawRequested handler
    redraw_requested,     \* a redraw has been requested (Window::request_redraw)
    pc,                   \* position of the handler
    all_cmds,             \* the drained command list of the frame
    texts,                \* the Text items filtered out of all_cmds
    i,                    \* loop index of Renderer::draw
    broke,                \* draw left its loop through `break`
    pass,                 \* commands recorded into the render pass of the frame
    \* history
    appended,             \* every command pushed to draw_queue, in push order
    drained,              \* the command lists of all frames so far, concatenated
    uploads_made,         \* number of uploads pushed to texture_queue
    sets_made,            \* number of SetDrawColor / SetViewport calls so far
    strings_made,         \* number of DrawString calls so far
    prev_broke,           \* the previous frame's draw ended through `break`
    after_upload,         \* per command of `appended`: its texture's upload was pushed before it
    \* a text command under test (SpecText)
    text,                 \* TextCmd::text, the raw text
    cmd_color,            \* TextCmd::color
    spans,                \* what parse_color_spans(text, cmd_color) returned
    stripped,             \* what strip_pob_escapes(text) returned
    cursor_index,         \* what DrawStringCursorIndex returned: None or Some(index)
    \* events and callbacks (App::window_event, LuaHost::callback)
    main_object,          \* LuaHost::main_object: None or Some(object)
    main_object_locked,   \* the main_object mutex is held
    script,               \* the Lua code the event-loop thread is running
    event,                \* the keyboard event being handled: None or Some(record)
    pressed_keys,         \* App::pressed_keys
    last_event,           \* history: per key, the state of the latest event delivered
    is_key_down           \* what IsKeyDown last returned in the current or latest script run

renderer_vars == <<textures, byte_offset, vertex_buffer, bind_groups_created>>
queue_vars == <<draw_queue, texture_queue, text_queue>>
host_vars == <<color, viewport, next_id, image_handles>>
frame_vars == <<redraw_requested, pc, all_cmds, texts, i, broke, pass>>
history_vars == <<appended, drained, uploads_made, sets_made, strings_made, prev_broke,
                  after_upload>>
text_vars == <<text, cmd_color, spans, stripped, cursor_index>>
event_vars == <<main_object, main_object_locked, script, event, pressed_keys, last_event,
                is_key_down>>
vars == <<renderer_vars, queue_vars, host_vars, frame_vars, history_vars, text_vars,
          event_vars>>

\* self.vertex_buffer.size()
buffer_cap == Len(vertex_buffer) * VertexSize

\* Capacities (in vertices) the model creates the vertex buffer with: whole
\* numbers of rectangles, and, like the source's 131072, two more than that.
Capacities == {c \in 6..MaxCapVertices : c % 6 \in {0, 2}}

EmptyBuffer(cap) == [k \in 1..cap |-> ZeroVertex]

(***************************************************************************)
(* The RedrawRequested handler (App::window_event), step by step.  Each    *)
(* step holds at most one queue lock.                                      *)
(***************************************************************************)
\* Drain the upload queue under its lock and load every upload.
PumpUploads ==
    /\ pc = "idle"
    /\ redraw_requested
    /\ redraw_requested' = FALSE
    /\ textures' = LoadUploads(textures, bind_groups_created + 1, texture_queue)
    /\ bind_groups_created' = bind_groups_created + Len(texture_queue)
    /\ texture_queue' = <<>>
    /\ pc' = "begin"
    /\ UNCHANGED <<byte_offset, vertex_buffer, draw_queue, host_vars,
                   all_cmds, texts, i, broke, pass, history_vars>>
    /\ UNCHANGED <<text_queue, text_vars, event_vars>>

\* Mutant of begin_frame: the cursor is not reset.
begin_frame_keep(offset) == offset

\* Renderer::begin_frame
begin_frame(offset) == 0

BeginFrame ==
    /\ pc = "begin"
    /\ byte_offset' = begin_frame(byte_offset)
    /\ prev_broke' = broke
    /\ broke' = FALSE
    /\ pc' = "drain"
    /\ UNCHANGED <<textures, vertex_buffer, bind_groups_created, queue_vars, host_vars,
                   redraw_requested, all_cmds, texts, i, pass,
                   appended, drained, uploads_made, sets_made, after_upload>>
    /\ UNCHANGED <<strings_made, text_vars, event_vars>>

\* Mutant of DrainAll: the queue is copied, not emptied.
DrainCopy(queue) == [taken |-> queue, left |-> queue]

\* self.draw_queue.lock().unwrap().drain(..).collect(): the list handed to
\* the frame and what stays in the queue.
DrainAll(queue) == [taken |-> queue, left |-> <<>>]

\* The commands draw records before its loop.
DrawPrelude ==
    << [op |-> "set_pipeline"],
       [op |-> "set_bind_group", index |-> 0, bind_group |-> "screen"],
       [op |-> "set_vertex_buffer"] >>

\* Mutant of FilterTexts: the texts are collected in reverse.
RECURSIVE FilterTextsReversed(_)
FilterTextsReversed(cmds) ==
    IF cmds = <<>> THEN <<>>
    ELSE FilterTextsReversed(Tail(cmds)) \o
         (IF Head(cmds).kind = "Text" THEN <<Head(cmds)>> ELSE <<>>)

\* all_cmds.iter().filter_map(|d| if let DrawItem::Text(t) = d ..).collect()
FilterTexts(cmds) == SelectSeq(cmds, LAMBDA item : item.kind = "Text")

\* Drain the draw queue under its lock, filter the Text items, begin the
\* render pass and enter Renderer::draw.
DrainQueue ==
    /\ pc = "drain"
    /\ LET d == DrainAll(draw_queue)
       IN  /\ all_cmds' = d.taken
           /\ draw_queue' = d.left
           /\ texts' = FilterTexts(d.taken)
           /\ drained' = drained \o d.taken
    /\ pass' = DrawPrelude
    /\ i' = 0
    /\ pc' = "draw"
    /\ UNCHANGED <<renderer_vars, texture_queue, host_vars, redraw_requested, broke,
                   appended, uploads_made, sets_made, prev_broke, after_upload>>
    /\ UNCHANGED <<text_queue, strings_made, text_vars, event_vars>>

\* Mutant of Exhausted: no overflow test.
ExhaustedNever(offset, n, cap) == FALSE

\* Mutant of Exhausted: a group that ends exactly at the capacity is refused.
ExhaustedAtCapacity(offset, n, cap) == offset + n * VertexSize >= cap

\* Mutant of Exhausted: only the group's first item has to fit.
ExhaustedFirstItem(offset, n, cap) == offset + 6 * VertexSize > cap

\* The overflow test of draw: TRUE when the group must not be written.
Exhausted(offset, n, cap) == offset + n * VertexSize > cap

\* Mutant of VertStart: the draw range ignores the cursor.
VertStartZero(offset) == 0

\* (self.byte_offset / vertex_size) as u32
VertStart(offset) == offset \div VertexSize

\* One iteration of the outer loop of Renderer::draw.
DrawGroup ==
    /\ pc = "draw"
    /\ i < Len(all_cmds)
    /\ LET start == i
           tid == tid_of(all_cmds[i + 1])
           end == GroupEnd(all_cmds, start, i)
           vertices == GroupVertices(all_cmds, start, end)
           bg == ResolveBindGroup(textures, tid)
           state == << [op |-> "set_scissor_rect",
                        rect |-> ScissorOf(clip_of(all_cmds[start + 1]))],
                       [op |-> "set_bind_group", index |-> 1, bind_group |-> bg] >>
           vert_start == VertStart(byte_offset)
           vert_end == vert_start + Len(vertices)
       IN  /\ i' = end
           /\ IF vertices = <<>>
              THEN \* continue
                   /\ pass' = pass \o state
                   /\ pc' = "draw"
                   /\ UNCHANGED <<byte_offset, vertex_buffer, broke>>
              ELSE IF Exhausted(byte_offset, Len(vertices), buffer_cap)
              THEN \* break
                   /\ pass' = pass \o state
                   /\ broke' = TRUE
                   /\ pc' = "text"
                   /\ UNCHANGED <<byte_offset, vertex_buffer>>
              ELSE /\ vertex_buffer' = WriteBuffer(vertex_buffer, byte_offset, vertices)
                   /\ pass' = pass \o state \o
                              << [op |-> "draw", first |-> vert_start, last |-> vert_end] >>
                   /\ byte_offset' = byte_offset + Len(vertices) * VertexSize
                   /\ pc' = "draw"
                   /\ UNCHANGED broke
    /\ UNCHANGED <<textures, bind_groups_created, queue_vars, host_vars,
                   redraw_requested, all_cmds, texts, history_vars>>
    /\ UNCHANGED <<text_vars, event_vars>>

\* The outer loop of draw ends: i = cmds.len().
DrawReturn ==
    /\ pc = "draw"
    /\ i >= Len(all_cmds)
    /\ pc' = "text"
    /\ UNCHANGED <<renderer_vars, queue_vars, host_vars, redraw_requested,
                   all_cmds, texts, i, broke, pass, history_vars>>
    /\ UNCHANGED <<text_vars, event_vars>>

\* The results of self.renderer.prepare(..) of glyphon: Ok, or, when there are
\* glyphs to place and the atlas cannot take them, Err(PrepareError::AtlasFull).
PrepareResults(parsed) ==
    IF \E k \in DOMAIN parsed : \E n \in DOMAIN parsed[k].spans : parsed[k].spans[n][1] # <<>>
    THEN {"Ok", "AtlasFull"}
    ELSE {"Ok"}

\* f32 subtraction and division on fractions.
FSub(a, b) == F32(a[1] * b[2] - b[1] * a[2], a[2] * b[2])
FDiv(a, b) == F32(a[1] * b[2], a[2] * b[1])

\* (c * 255.0) as u8 for a channel c in [0, 1].
Channel8(c) == (c[1] * 255) \div c[2]

\* glyphon::Color::rgba of the four channels of an f32 colour.
GlyphColor(c) == <<Channel8(c[1]), Channel8(c[2]), Channel8(c[3]), Channel8(c[4])>>

\* What the first loop of prepare puts into the buffer of one command: the
\* metrics from the size, the family from the font tag, and the spans with
\* their glyph colours.
ShapeInput(cmd, parsed) ==
    [metrics |-> cmd.size,
     family |-> IF cmd.font = "FIXED" THEN "Monospace" ELSE "SansSerif",
     rich |-> [n \in DOMAIN parsed.spans |->
                  <<parsed.spans[n][1], GlyphColor(parsed.spans[n][2])>>]]

\* The line widths shaping can measure (layout_runs().map(|r| r.line_w)
\* folded with max from 0.0): shaping is done by glyphon, every non-negative
\* width is possible; these are the ones the model tries.
LineWidths == {0, 3, 40}

\* Mutant of TextLeft: the centred text is moved left by its whole width.
TextLeftWholeWidth(cmd, line_w) ==
    CASE cmd.align = "RIGHT_X" -> FSub(F32(cmd.x, 1), F32(line_w, 1))
      [] cmd.align = "CENTER_X" -> FSub(F32(cmd.x, 1), F32(line_w, 1))
      [] OTHER -> F32(cmd.x, 1)

\* let left = match cmd.align.as_str() { .. }
TextLeft(cmd, line_w) ==
    CASE cmd.align = "RIGHT_X" -> FSub(F32(cmd.x, 1), F32(line_w, 1))
      [] cmd.align = "CENTER_X" -> FSub(F32(cmd.x, 1), FDiv(F32(line_w, 1), F32(2, 1)))
      [] OTHER -> F32(cmd.x, 1)

\* let bounds = match cmd.clip { .. }
TextBounds(clip) ==
    IF clip = None
    THEN [left |-> 0, top |-> 0, right |-> screen_size[1], bottom |-> screen_size[2]]
    ELSE LET c == clip[2]
         IN  [left |-> c[1], top |-> c[2], right |-> c[1] + c[3], bottom |-> c[2] + c[4]]

\* The glyphon::TextArea prepare pushes for one command whose buffer was
\* shaped from input and measured line_w wide.
TextArea(cmd, input, line_w) ==
    [buffer |-> [input |-> input, line_w |-> line_w],
     left |-> TextLeft(cmd, line_w),
     top |-> cmd.y,
     scale |-> One,
     bounds |-> TextBounds(cmd.clip),
     default_color |-> GlyphColor(cmd.color)]

\* g.text_renderer.prepare(.., &texts).unwrap() and render(&mut pass).unwrap():
\* prepare parses and shapes every text and builds its text area; a panic in
\* it, or the unwrap of its Err, ends the process before submit and present.
\* Shaping is a function of what was put into the buffer, so equal inputs
\* are measured equally wide.
TextPass ==
    /\ pc = "text"
    /\ LET parsed == [k \in DOMAIN texts |->
                         parse_color_spans(texts[k].text, texts[k].color)]
       IN  IF \E k \in DOMAIN parsed : parsed[k].panic
           THEN pc' = "panicked" /\ UNCHANGED pass
           ELSE LET input == [k \in DOMAIN texts |-> ShapeInput(texts[k], parsed[k])]
                IN  \E measured \in [{input[k] : k \in DOMAIN texts} -> LineWidths] :
                    \E result \in PrepareResults(parsed) :
                       IF result = "Ok"
                       THEN /\ pass' = pass \o
                                  << [op |-> "text", cmds |-> texts,
                                      text_areas |->
                                         [k \in DOMAIN texts |->
                                             TextArea(texts[k], input[k],
                                                      measured[input[k]])]] >>
                            /\ pc' = "present"
                       ELSE pc' = "panicked" /\ UNCHANGED pass
    /\ UNCHANGED <<renderer_vars, queue_vars, host_vars, redraw_requested,
                   all_cmds, texts, i, broke, history_vars>>
    /\ UNCHANGED <<text_vars, event_vars>>

\* g.queue.submit(..); frame.present(); the handler returns and its locals
\* (all_cmds, texts, the pass) are dropped.
Present ==
    /\ pc = "present"
    /\ pc' = "idle"
    /\ all_cmds' = <<>>
    /\ texts' = <<>>
    /\ pass' = <<>>
    /\ i' = 0
    /\ UNCHANGED <<renderer_vars, queue_vars, host_vars, redraw_requested,
                   broke, history_vars>>
    /\ UNCHANGED <<text_vars, event_vars>>

\* App::about_to_wait: w.request_redraw() (the host calls the OnFrame
\* callback makes are the host actions below).
AboutToWait ==
    /\ pc = "idle"
    /\ ~redraw_requested
    /\ redraw_requested' = TRUE
    /\ UNCHANGED <<renderer_vars, queue_vars, host_vars, pc, all_cmds, texts, i,
                   broke, pass, history_vars>>
    /\ UNCHANGED <<text_vars, event_vars>>


(***************************************************************************)
(* Host functions (LuaHost::new).  The script may call them at any point;  *)
(* each takes the locks it needs one at a time.                            *)
(***************************************************************************)
ClipA == <<0, 0, 2, 1>>
ClipB == <<1, 0, 0, 1>>
Colors == {White, Red}
\* A clip that reaches beyond the screen of 3 x 2 pixels.
ClipWide == <<2, 1, 2, 2>>

\* Lua values a script passes to a host function.
LuaInteger(n) == <<"Integer", n>>
LuaNumber(n, d) == <<"Number", n, d>>

\* args.next().and_then(|v| v.as_integer()).unwrap_or(0) as u32, for the
\* k-th argument (the values used are not negative and fit 32 bits).
AsIntegerOr0(args, k) ==
    IF k <= Len(args) /\ args[k][1] = "Integer" THEN args[k][2] ELSE 0

\* The viewport SetViewport stores for an argument list: x, y, w, h when the
\* first argument is an integer, None otherwise.
ViewportOf(args) ==
    IF Len(args) >= 1 /\ args[1][1] = "Integer"
    THEN Some(<<args[1][2], AsIntegerOr0(args, 2), AsIntegerOr0(args, 3),
                AsIntegerOr0(args, 4)>>)
    ELSE None

\* Argument lists of SetViewport: none, the clip ClipA, the clip ClipWide,
\* and a first argument that is not an integer.
ViewportArgs ==
    { <<>>,
      <<LuaInteger(0), LuaInteger(0), LuaInteger(2), LuaInteger(1)>>,
      <<LuaInteger(2), LuaInteger(1), LuaInteger(2), LuaInteger(2)>>,
      <<LuaNumber(1, 2), LuaInteger(0), LuaInteger(2), LuaInteger(1)>> }

Viewports == {ViewportOf(args) : args \in ViewportArgs}
UnitUv == <<0, 0, 1, 1>>
\* The rectangles (x, y, w, h) the host draws; they share the pixel (1, 0).
RectPlaces == {<<0, 0, 2, 1>>, <<1, 0, 2, 1>>}
\* The rectangle the host functions of Spec draw.
HostPlace == <<0, 0, 2, 1>>
QuadPositions == <<<<0, 0>>, <<2, 0>>, <<2, 1>>, <<0, 1>>>>
QuadUvs == <<<<0, 0>>, <<1, 0>>, <<1, 1>>, <<0, 1>>>>

\* The handles a script can pass to DrawImage: nil (0), or a table
\* NewImageHandle returned, given here by its id.
Handles == {0} \cup {image_handles[k].id : k \in DOMAIN image_handles}

\* texture_id of DrawImage / DrawImageQuad: the id field of a table, else 0.
HandleId(handle) == handle

\* History: Load of a handle with this id has pushed its upload (the host
\* functions of Spec set `valid` only in Load and never clear it).
Uploaded(id) == \E k \in DOMAIN image_handles :
                   image_handles[k].id = id /\ image_handles[k].valid

SetDrawColor ==
    /\ sets_made < MaxSets
    /\ \E c \in Colors : color' = c
    /\ color' # color
    /\ sets_made' = sets_made + 1
    /\ UNCHANGED <<renderer_vars, queue_vars, viewport, next_id, image_handles, frame_vars,
                   appended, drained, uploads_made, prev_broke, after_upload>>
    /\ UNCHANGED <<strings_made, text_vars, event_vars>>

SetViewport ==
    /\ sets_made < MaxSets
    /\ \E args \in ViewportArgs : viewport' = ViewportOf(args)
    /\ viewport' # viewport
    /\ sets_made' = sets_made + 1
    /\ UNCHANGED <<renderer_vars, queue_vars, color, next_id, image_handles, frame_vars,
                   appended, drained, uploads_made, prev_broke, after_upload>>
    /\ UNCHANGED <<strings_made, text_vars, event_vars>>

\* dq.lock().unwrap().push(item)
Push(queue, item) == Append(queue, item)

\* Mutant of DrawImage: the rectangle is queued without the viewport.
DrawImageNoClip ==
    /\ Len(appended) + strings_made + Len(image_handles) < MaxAppends
    /\ \E handle \in Handles, place \in {HostPlace} :
          LET item == Rect(place[1], place[2], place[3], place[4], color,
                           HandleId(handle), UnitUv, None)
          IN  /\ draw_queue' = Push(draw_queue, item)
              /\ appended' = Append(appended, item)
              /\ after_upload' = Append(after_upload, Uploaded(HandleId(handle)))
    /\ UNCHANGED <<renderer_vars, texture_queue, host_vars, frame_vars,
                   drained, uploads_made, sets_made, prev_broke>>
    /\ UNCHANGED <<text_queue, strings_made, text_vars, event_vars>>

DrawImage ==
    /\ Len(appended) + strings_made + Len(image_handles) < MaxAppends
    /\ \E handle \in Handles, place \in {HostPlace} :
          LET item == Rect(place[1], place[2], place[3], place[4], color,
                           HandleId(handle), UnitUv, viewport)
          IN  /\ draw_queue' = Push(draw_queue, item)
              /\ appended' = Append(appended, item)
              /\ after_upload' = Append(after_upload, Uploaded(HandleId(handle)))
    /\ UNCHANGED <<renderer_vars, texture_queue, host_vars, frame_vars,
                   drained, uploads_made, sets_made, prev_broke>>
    /\ UNCHANGED <<text_queue, strings_made, text_vars, event_vars>>

DrawImageQuad ==
    /\ Len(appended) + strings_made + Len(image_handles) < MaxAppends
    /\ \E handle \in Handles :
          LET item == Quad(HandleId(handle), color, viewport, QuadPositions, QuadUvs)
          IN  /\ draw_queue' = Push(draw_queue, item)
              /\ appended' = Append(appended, item)
              /\ after_upload' = Append(after_upload, Uploaded(HandleId(handle)))
    /\ UNCHANGED <<renderer_vars, texture_queue, host_vars, frame_vars,
                   drained, uploads_made, sets_made, prev_broke>>
    /\ UNCHANGED <<text_queue, strings_made, text_vars, event_vars>>

\* The table NewImageHandle builds for an id.
ImageHandle(id) == [id |-> id, valid |-> FALSE, width |-> 0, height |-> 0]

\* Mutant of NewImageHandle: the counter is read but not advanced.
NewImageHandleSameId ==
    /\ Len(image_handles) < MaxHandles
    /\ Len(appended) + strings_made + Len(image_handles) < MaxAppends
    /\ next_id' = next_id
    /\ image_handles' = Append(image_handles, ImageHandle(next_id))
    /\ UNCHANGED <<renderer_vars, queue_vars, color, viewport, frame_vars, history_vars>>
    /\ UNCHANGED <<text_vars, event_vars>>

\* NewImageHandle(): under the next_id lock `let id = *n; *n += 1`, then a
\* table with that id, valid = false, width = 0 and height = 0.  The counter
\* is a u32; with at most MaxHandles calls it stays far below the value at
\* which `*n += 1` overflows.
NewImageHandle ==
    /\ Len(image_handles) < MaxHandles
    /\ Len(appended) + strings_made + Len(image_handles) < MaxAppends
    /\ next_id' = next_id + 1
    /\ image_handles' = Append(image_handles, ImageHandle(next_id))
    /\ UNCHANGED <<renderer_vars, queue_vars, color, viewport, frame_vars, history_vars>>
    /\ UNCHANGED <<text_vars, event_vars>>

\* The raw texts the script draws.
HostTexts == {<<"^", "1", "H", "i">>}

\* The TextCmd literal of DrawString: x, y, size, color, text.
HostTextCmd(x, y, size, c, t) == [x |-> x, y |-> y, size |-> size, color |-> c, text |-> t]

\* DrawString(x, y, align, size, font, text): pushes to the text queue.
DrawString ==
    /\ Len(appended) + strings_made + Len(image_handles) < MaxAppends
    /\ \E raw \in HostTexts :
          text_queue' = Append(text_queue,
                               HostTextCmd(0, 0, 16, color, strip_pob_escapes(raw)))
    /\ strings_made' = strings_made + 1
    /\ UNCHANGED <<renderer_vars, draw_queue, texture_queue, host_vars, frame_vars,
                   appended, drained, uploads_made, sets_made, prev_broke, after_upload,
                   text_vars, event_vars>>

\* handle:Load(path) when image::open succeeds (a failed open changes nothing).
Load ==
    /\ uploads_made < MaxUploads
    /\ \E h \in DOMAIN image_handles :
          /\ texture_queue' = Append(texture_queue,
                                     TextureUploadCmd(image_handles[h].id, ImagePixels, 1, 1))
          /\ image_handles' = [image_handles EXCEPT
                                  ![h].valid = TRUE, ![h].width = 1, ![h].height = 1]
    /\ uploads_made' = uploads_made + 1
    /\ UNCHANGED <<renderer_vars, draw_queue, color, viewport, next_id, frame_vars,
                   appended, drained, sets_made, prev_broke, after_upload>>
    /\ UNCHANGED <<text_queue, strings_made, text_vars, event_vars>>

\* handle:Unload(): this.set("valid", false)
Unload ==
    /\ \E h \in DOMAIN image_handles :
          image_handles' = [image_handles EXCEPT ![h].valid = FALSE]
    /\ UNCHANGED <<renderer_vars, queue_vars, color, viewport, next_id, frame_vars,
                   history_vars, text_vars, event_vars>>

\* parse_color_spans / strip_pob_escapes have not been called.
NotParsed == [run |-> FALSE, panic |-> FALSE, spans |-> <<>>]
NotStripped == [run |-> FALSE, text |-> <<>>]

\* No text command is under test.
NoText ==
    /\ text = <<>>
    /\ cmd_color = White
    /\ spans = NotParsed
    /\ stripped = NotStripped
    /\ cursor_index = None

\* pob_key_name: two of the key names it returns.
KeyNames == {"ESCAPE", "TAB"}

\* winit::event::ElementState
ElementStates == {"Pressed", "Released"}

\* Objects a script passes to SetMainObject.
Objects == {"launch", "main"}

\* No event is being handled, no script is running, no key is pressed.
NoEvents ==
    /\ main_object = None
    /\ main_object_locked = FALSE
    /\ script = "none"
    /\ event = None
    /\ pressed_keys = {}
    /\ last_event = [k \in KeyNames |-> "none"]
    /\ is_key_down = None

(***************************************************************************)
(* Spec: the program.  Init is the state main() builds (Renderer::new,     *)
(* empty queues, LuaHost::new).                                            *)
(***************************************************************************)
Init ==
    /\ textures = (0 :> white_bind_group)
    /\ byte_offset = 0
    /\ \E cap \in Capacities : vertex_buffer = EmptyBuffer(cap)
    /\ bind_groups_created = 0
    /\ draw_queue = <<>>
    /\ texture_queue = <<>>
    /\ color = White
    /\ viewport = None
    /\ next_id = 1
    /\ image_handles = <<>>
    /\ redraw_requested = FALSE
    /\ pc = "idle"
    /\ all_cmds = <<>>
    /\ texts = <<>>
    /\ i = 0
    /\ broke = FALSE
    /\ pass = <<>>
    /\ appended = <<>>
    /\ drained = <<>>
    /\ uploads_made = 0
    /\ sets_made = 0
    /\ prev_broke = FALSE
    /\ after_upload = [k \in 1..Len(draw_queue) |-> FALSE]
    /\ NoEvents
    /\ text_queue = <<>>
    /\ strings_made = 0
    /\ NoText

Frame ==
    \/ PumpUploads
    \/ BeginFrame
    \/ DrainQueue
    \/ DrawGroup
    \/ DrawReturn
    \/ TextPass
    \/ Present

Host ==
    \/ SetDrawColor
    \/ SetViewport
    \/ DrawImage
    \/ DrawImageQuad
    \/ DrawString
    \/ NewImageHandle
    \/ Load

Next == Frame \/ AboutToWait \/ Host

Spec == Init /\ [][Next]_vars

(***************************************************************************)
(* SpecDraw: one frame of the renderer on every command list within the    *)
(* bounds, with no or one pending upload.  The frame starts with the lists *)
(* already queued and a redraw requested.                                  *)
(***************************************************************************)
\* The texture ids the commands and the pending upload of SpecDraw name.
TextureIds == {0, 1}

SampleText ==
    Text(0, 0, 16, <<"^", "1", "H", "i">>, White, "LEFT", "VAR", Some(ClipA))

\* A second text, without markup, right-aligned and unclipped.
OtherText ==
    Text(3, 1, 16, <<"O", "k">>, Red, "RIGHT_X", "FIXED", None)

\* The commands the lists of SpecDraw are made of: a red and a blue
\* rectangle that overlap, with every texture id, unclipped and clipped; a
\* rectangle with a zero-width clip; an unclipped quad with every texture
\* id; two texts.
DrawItems ==
    {Rect(p[1], p[2], p[3], p[4], IF p[1] = 0 THEN Red ELSE Blue, t, UnitUv, c) :
        p \in RectPlaces, t \in TextureIds, c \in {None, Some(ClipA)}}
    \cup {Rect(0, 0, 2, 1, Red, 0, UnitUv, Some(ClipB))}
    \cup {Quad(t, White, None, QuadPositions, QuadUvs) : t \in TextureIds}
    \cup {SampleText, OtherText}

SeqsUpTo(S, n) == UNION {[1..k -> S] : k \in 0..n}

UploadCmds == {TextureUploadCmd(id, ImagePixels, 1, 1) : id \in TextureIds}

InitDraw ==
    /\ textures = (0 :> white_bind_group)
    /\ byte_offset = 0
    /\ \E cap \in Capacities : vertex_buffer = EmptyBuffer(cap)
    /\ bind_groups_created = 0
    /\ draw_queue \in SeqsUpTo(DrawItems, MaxCmds)
    /\ texture_queue \in SeqsUpTo(UploadCmds, 1)
    /\ color = White
    /\ viewport = None
    /\ next_id = 1
    /\ image_handles = <<>>
    /\ redraw_requested = TRUE
    /\ pc = "idle"
    /\ all_cmds = <<>>
    /\ texts = <<>>
    /\ i = 0
    /\ broke = FALSE
    /\ pass = <<>>
    /\ appended = draw_queue
    /\ drained = <<>>
    /\ uploads_made = Len(texture_queue)
    /\ sets_made = 0
    /\ prev_broke = FALSE
    /\ after_upload = [k \in 1..Len(draw_queue) |-> FALSE]
    /\ NoEvents
    /\ text_queue = <<>>
    /\ strings_made = 0
    /\ NoText

NextDraw == Frame

SpecDraw == InitDraw /\ [][NextDraw]_vars


(***************************************************************************)
(* What a frame put on screen, read back from the recorded pass and the    *)
(* vertex buffer.                                                          *)
(***************************************************************************)
\* The draw calls of a pass, in issue order.
DrawCalls(p) == SelectSeq(p, LAMBDA c : c.op = "draw")

RECURSIVE Flatten(_)
Flatten(seqs) == IF seqs = <<>> THEN <<>> ELSE Head(seqs) \o Flatten(Tail(seqs))

\* The vertices the draw calls of the pass read from the buffer, in order.
DrawnVertices ==
    LET calls == DrawCalls(pass)
    IN  Flatten([k \in 1..Len(calls) |->
                    SubSeq(vertex_buffer, calls[k].first + 1, calls[k].last)])

\* The vertices of the geometry items of a list, item by item, in list order.
RECURSIVE ListVertices(_)
ListVertices(cmds) ==
    IF cmds = <<>> THEN <<>>
    ELSE (IF Head(cmds).kind = "Rect" THEN RectVertices(Head(cmds))
          ELSE IF Head(cmds).kind = "Quad" THEN QuadVertices(Head(cmds))
          ELSE <<>>) \o ListVertices(Tail(cmds))

Geometry(cmds) == SelectSeq(cmds, IsGeometry)

\* The list needs no more vertices than the buffer holds.
Fits(cmds) == 6 * Len(Geometry(cmds)) * VertexSize <= buffer_cap

\* Renderer::draw has returned for the current frame.
DrawDone == pc \in {"text", "present"}

(***************************************************************************)
(* C1  Batch partition.                                                    *)
(***************************************************************************)
\* C1: when the command list of a frame fits in the vertex buffer, the
\* vertices covered by the draw calls of Renderer::draw, concatenated in
\* issue order, are exactly the vertices of the non-text items of the list
\* in list order (nothing dropped, reordered or drawn twice).
C1_BatchPartition ==
    (DrawDone /\ Fits(all_cmds)) => DrawnVertices = ListVertices(all_cmds)

\* Two draw calls and a Text item in a list that fits.
C1_Witness ==
    /\ DrawDone
    /\ Fits(all_cmds)
    /\ Len(DrawCalls(pass)) >= 2
    /\ texts # <<>>
    /\ Len(Geometry(all_cmds)) >= 2


(***************************************************************************)
(* Rasterisation of the recorded pass: triangle lists, drawn in order,     *)
(* clipped by the scissor in effect; a later triangle covers an earlier    *)
(* one.  Coordinates are doubled so that pixel centres are integers.       *)
(***************************************************************************)
Pixels == (0..(screen_size[1] - 1)) \X (0..(screen_size[2] - 1))

EdgeFn(a, b, p) == (b[1] - a[1]) * (p[2] - a[2]) - (b[2] - a[2]) * (p[1] - a[1])

\* The centre of pixel px lies in the triangle (a, b, c), whatever its winding.
InTriangle(px, a, b, c) ==
    LET p  == <<2 * px[1] + 1, 2 * px[2] + 1>>
        a2 == <<2 * a[1], 2 * a[2]>>
        b2 == <<2 * b[1], 2 * b[2]>>
        c2 == <<2 * c[1], 2 * c[2]>>
        e1 == EdgeFn(a2, b2, p)
        e2 == EdgeFn(b2, c2, p)
        e3 == EdgeFn(c2, a2, p)
    IN  \/ (e1 >= 0 /\ e2 >= 0 /\ e3 >= 0)
        \/ (e1 <= 0 /\ e2 <= 0 /\ e3 <= 0)

InScissor(px, r) ==
    /\ r[1] <= px[1] /\ px[1] < r[1] + r[3]
    /\ r[2] <= px[2] /\ px[2] < r[2] + r[4]

\* The scissor rectangle in effect at position k of the pass.
RECURSIVE ScissorAt(_, _)
ScissorAt(p, k) ==
    IF k = 0 THEN <<0, 0, screen_size[1], screen_size[2]>>
    ELSE IF p[k].op = "set_scissor_rect" THEN p[k].rect
    ELSE ScissorAt(p, k - 1)

\* The triangles of the pass in drawing order, each with its scissor.
Triangles ==
    LET idx == SelectSeq([k \in 1..Len(pass) |-> k], LAMBDA k : pass[k].op = "draw")
        tris(k) ==
            LET c == pass[k]
                n == (c.last - c.first) \div 3
            IN  [t \in 1..n |->
                    [a |-> vertex_buffer[c.first + 3 * (t - 1) + 1],
                     b |-> vertex_buffer[c.first + 3 * (t - 1) + 2],
                     c |-> vertex_buffer[c.first + 3 * (t - 1) + 3],
                     scissor |-> ScissorAt(pass, k)]]
    IN  Flatten([j \in 1..Len(idx) |-> tris(idx[j])])

Covers(tri, px) ==
    /\ InScissor(px, tri.scissor)
    /\ InTriangle(px, tri.a.position, tri.b.position, tri.c.position)

Background == "background"

\* The colour on top at pixel px after the pass.
TopColor(px) ==
    LET tris == Triangles
        hit == {k \in 1..Len(tris) : Covers(tris[k], px)}
    IN  IF hit = {} THEN Background
        ELSE tris[CHOOSE k \in hit : \A j \in hit : j <= k].a.color

RectCovers(cmd, px) ==
    /\ cmd.x <= px[1] /\ px[1] < cmd.x + cmd.w
    /\ cmd.y <= px[2] /\ px[2] < cmd.y + cmd.h

\* The list is made of rectangles that share one texture id and one clip.
SameKeyRects(cmds) ==
    /\ \A k \in 1..Len(cmds) : cmds[k].kind = "Rect"
    /\ \A j, k \in 1..Len(cmds) :
          /\ cmds[j].texture_id = cmds[k].texture_id
          /\ cmds[j].clip = cmds[k].clip

\* C2: for rectangles that share one texture id and one clip and fit in the
\* buffer, at every pixel that the clip shows and some rectangle covers, the
\* colour on top is the colour of the latest submitted rectangle covering it.
C2_OrderPreservation ==
    (DrawDone /\ SameKeyRects(all_cmds) /\ Fits(all_cmds)) =>
        \A px \in Pixels :
            LET over == {k \in 1..Len(all_cmds) :
                            /\ RectCovers(all_cmds[k], px)
                            /\ InScissor(px, ScissorOf(all_cmds[k].clip))}
            IN  over # {} =>
                    TopColor(px) = all_cmds[CHOOSE k \in over : \A j \in over : j <= k].color

\* A red rectangle submitted after a blue one that it overlaps.
C2_Witness ==
    /\ DrawDone
    /\ SameKeyRects(all_cmds)
    /\ Fits(all_cmds)
    /\ Len(all_cmds) >= 2
    /\ all_cmds[1].color = Blue
    /\ all_cmds[2].color = Red
    /\ \E px \in Pixels : RectCovers(all_cmds[1], px) /\ RectCovers(all_cmds[2], px)
                          /\ TopColor(px) = Red


(***************************************************************************)
(* C3  Text items and runs.                                                *)
(***************************************************************************)
\* Number of vertices of the items before 0-based index k of the list.
VerticesBefore(cmds, k) == 6 * Len(Geometry(SubSeq(cmds, 1, k)))

\* The draw call (its position among the draw calls of the pass) whose
\* vertex range holds the first vertex of item k; 0 when there is none.
DrawCallOf(k) ==
    LET calls == DrawCalls(pass)
        v == VerticesBefore(all_cmds, k)
        hit == {j \in 1..Len(calls) : calls[j].first <= v /\ v < calls[j].last}
    IN  IF hit = {} THEN 0 ELSE CHOOSE j \in hit : TRUE

\* C3: two geometry items with equal (texture id, clip) that only Text items
\* separate are drawn by one draw call, whatever the texture id and the clip.
C3_TextKeepsRun ==
    (DrawDone /\ ~broke) =>
        \A a, b \in 0..(Len(all_cmds) - 1) :
            ( /\ a + 1 < b
              /\ IsGeometry(all_cmds[a + 1])
              /\ IsGeometry(all_cmds[b + 1])
              /\ \A k \in (a + 1)..(b - 1) : all_cmds[k + 1].kind = "Text"
              /\ all_cmds[a + 1].texture_id = all_cmds[b + 1].texture_id
              /\ all_cmds[a + 1].clip = all_cmds[b + 1].clip )
            => DrawCallOf(a) = DrawCallOf(b)

(***************************************************************************)
(* C4  Exhaustion policy.                                                  *)
(***************************************************************************)
\* The step is an iteration of the loop of draw over a group with vertices.
GroupStep == pc = "draw" /\ i < Len(all_cmds) /\ GroupVertices(all_cmds, i, i') # <<>>

\* C4: a group whose vertices would move the cursor past the capacity gets
\* no draw call, ends draw (no later group is looked at) and leaves cursor,
\* buffer size and buffer contents alone; a group that ends exactly at the
\* capacity is drawn; once draw has returned, the frame gets no more draw
\* calls.
C4_ExhaustionPolicy ==
    [][ /\ GroupStep =>
            LET n == Len(GroupVertices(all_cmds, i, i'))
            IN  IF byte_offset + n * VertexSize > buffer_cap
                THEN /\ DrawCalls(pass') = DrawCalls(pass)
                     /\ pc' = "text"
                     /\ byte_offset' = byte_offset
                     /\ vertex_buffer' = vertex_buffer
                ELSE /\ Len(DrawCalls(pass')) = Len(DrawCalls(pass)) + 1
                     /\ pc' = "draw"
        /\ (pc = "text" /\ pc' = "present") => DrawCalls(pass') = DrawCalls(pass)
      ]_vars

\* A first group filled the buffer exactly and was drawn, the second one
\* overflowed, and a third item was left unvisited.
C4_Witness ==
    /\ pc = "text"
    /\ broke
    /\ byte_offset = buffer_cap
    /\ Len(DrawCalls(pass)) = 1
    /\ i < Len(all_cmds)

(***************************************************************************)
(* C5  Exhaustion truncation.                                              *)
(***************************************************************************)
\* The 0-based indices at which the loop of draw starts a group.
RECURSIVE GroupStartsFrom(_, _)
GroupStartsFrom(cmds, start) ==
    IF start >= Len(cmds) THEN {}
    ELSE {start} \cup GroupStartsFrom(cmds, GroupEnd(cmds, start, start))

\* C5: with a capacity of N vertices and rectangles that need N + 6, draw
\* returns normally having drawn every group before the overflowing one in
\* full; the overflowing group is the only group with vertices not drawn.
C5_ExhaustionTruncation ==
    ( /\ DrawDone
      /\ \A k \in 1..Len(all_cmds) : all_cmds[k].kind \in {"Rect", "Text"}
      /\ 6 * Len(Geometry(all_cmds)) = Len(vertex_buffer) + 6 )
    => \E s \in GroupStartsFrom(all_cmds, 0) :
          LET e == GroupEnd(all_cmds, s, s)
          IN  /\ GroupVertices(all_cmds, s, e) # <<>>
              /\ DrawnVertices = ListVertices(SubSeq(all_cmds, 1, s))
              /\ Geometry(SubSeq(all_cmds, e + 1, Len(all_cmds))) = <<>>

\* Three rectangles for a buffer of two: the first group was drawn.
C5_Witness ==
    /\ DrawDone
    /\ \A k \in 1..Len(all_cmds) : all_cmds[k].kind = "Rect"
    /\ 6 * Len(Geometry(all_cmds)) = Len(vertex_buffer) + 6
    /\ broke
    /\ Len(DrawCalls(pass)) = 1
    /\ byte_offset = buffer_cap


(***************************************************************************)
(* C6  Exhaustion is frame-scoped.                                         *)
(***************************************************************************)
\* C6: in the frame after one whose draw stopped on exhaustion, a command
\* list that fits is drawn completely and draw does not stop early.
C6_NextFrameComplete ==
    (DrawDone /\ prev_broke /\ Fits(all_cmds)) =>
        (~broke /\ DrawnVertices = ListVertices(all_cmds))

\* The frame before drew a group and then ran out of space; this frame drew
\* its geometry.
C6_Witness ==
    /\ DrawDone
    /\ prev_broke
    /\ ~broke
    /\ Geometry(all_cmds) # <<>>
    /\ Len(drained) > Len(all_cmds) + 1
    /\ DrawnVertices = ListVertices(all_cmds)

(***************************************************************************)
(* C7  Frame buffer cursor.                                                *)
(***************************************************************************)
BeginFrameStep == pc = "begin" /\ pc' = "drain"

\* Number of vertices the draw calls of a pass cover.
RECURSIVE CoveredCount(_)
CoveredCount(calls) ==
    IF calls = <<>> THEN 0
    ELSE (Head(calls).last - Head(calls).first) + CoveredCount(Tail(calls))

\* C7: the cursor stays within 0 .. capacity; begin_frame leaves it at 0;
\* no other step decreases it; an iteration of draw that issues a draw call
\* advances it by 32 bytes for each of the 6 vertices of every Rect and Quad
\* of the group, and every other step leaves it alone.
C7_Cursor ==
    /\ [](0 <= byte_offset /\ byte_offset <= buffer_cap)
    /\ [][ /\ BeginFrameStep => byte_offset' = 0
           /\ ~BeginFrameStep => byte_offset' >= byte_offset
           /\ (pc = "draw" /\ Len(DrawCalls(pass')) = Len(DrawCalls(pass)) + 1) =>
                 /\ byte_offset' = byte_offset
                        + 6 * Len(Geometry(SubSeq(all_cmds, i + 1, i'))) * VertexSize
                 /\ byte_offset' = byte_offset
                        + (CoveredCount(DrawCalls(pass')) - CoveredCount(DrawCalls(pass)))
                          * VertexSize
           /\ (~BeginFrameStep /\ ~(pc = "draw" /\ Len(DrawCalls(pass')) > Len(DrawCalls(pass))))
                 => byte_offset' = byte_offset
         ]_vars

\* begin_frame is about to reset a cursor that a frame with two draw calls
\* had advanced.
C7_Witness ==
    /\ pc = "begin"
    /\ byte_offset >= 2 * 6 * VertexSize

(***************************************************************************)
(* C8  Fallback texture.                                                   *)
(***************************************************************************)
\* The bind groups a step binds to slot 1.
NewTextureBinds ==
    LET new == SubSeq(pass', Len(pass) + 1, Len(pass'))
    IN  {new[k].bind_group : k \in {j \in 1..Len(new) :
                                       new[j].op = "set_bind_group" /\ new[j].index = 1}}

\* C8: id 0 is always in the registry, and for a group whose texture id is
\* not in the registry draw binds the bind group registered for id 0.
C8_FallbackTexture ==
    /\ [](0 \in DOMAIN textures)
    /\ [][ (pc = "draw" /\ i < Len(all_cmds) /\ tid_of(all_cmds[i + 1]) \notin DOMAIN textures)
              => NewTextureBinds = {textures[0]}
         ]_vars

\* A group with an unregistered id was drawn with the bind group of id 0.
C8_Witness ==
    /\ DrawDone
    /\ \E k \in 1..Len(all_cmds) :
          /\ IsGeometry(all_cmds[k])
          /\ all_cmds[k].texture_id \notin DOMAIN textures
          /\ DrawCallOf(k - 1) # 0
          /\ \E j \in 1..Len(pass) :
                /\ pass[j].op = "set_bind_group"
                /\ pass[j].index = 1
                /\ pass[j].bind_group = textures[0]

(***************************************************************************)
(* C9  Id 0 is the white texture.                                          *)
(***************************************************************************)
\* C9: in every state id 0 is in the registry and resolves to the white 1x1
\* texture Renderer::new created.
C9_WhiteForever ==
    /\ 0 \in DOMAIN textures
    /\ textures[0] = white_bind_group

(***************************************************************************)
(* C10  Atomic drain.                                                      *)
(***************************************************************************)
\* C10: the command lists of the frames so far, followed by the queue, are
\* exactly the commands appended, in append order (each command is in one
\* frame's list or still queued, never in two); a drain hands the whole
\* queue to the frame and leaves it empty.
C10_AtomicDrain ==
    /\ [](appended = drained \o draw_queue)
    /\ [][ (pc = "drain" /\ pc' = "draw") =>
              /\ all_cmds' = draw_queue
              /\ drained' = drained \o all_cmds'
              /\ draw_queue' = <<>>
         ]_vars

\* While a frame draws its list, commands of an earlier frame have been
\* drained and a producer has appended a command for the next frame.
C10_Witness ==
    /\ pc = "draw"
    /\ all_cmds # <<>>
    /\ draw_queue # <<>>
    /\ Len(drained) > Len(all_cmds)


(***************************************************************************)
(* SpecText: one text command.  The text is any concatenation of up to     *)
(* MaxPieces pieces, or one of the two example texts; the text renderer    *)
(* parses it (TextRenderer::prepare) and the host measures it              *)
(* (DrawStringWidth, DrawStringCursorIndex).                               *)
(***************************************************************************)
\* Pieces of the texts: a caret, the letters of hex markup, a digit, a plain
\* letter, a sign, a three-byte character, six hex digits, five hex digits.
TextPieces ==
    { <<"^">>, <<"x">>, <<"X">>, <<"1">>, <<"g">>, <<"+">>, <<"euro">>,
      <<"0", "0", "F", "F", "0", "0">>, <<"a", "b", "c", "d", "e">> }

\* "^1Hello^x00FF00World"
ExampleMarkup ==
    <<"^", "1", "H", "e", "l", "l", "o",
      "^", "x", "0", "0", "F", "F", "0", "0", "W", "o", "r", "l", "d">>

\* "100%^"
ExampleCaret == <<"1", "0", "0", "%", "^">>

\* "^x^1abcde": ^x without six hex digits, then ^1 and a word.
ExampleHexThenDigit == <<"^", "x", "^", "1", "a", "b", "c", "d", "e">>

Texts ==
    {Flatten(pieces) : pieces \in SeqsUpTo(TextPieces, MaxPieces)}
    \cup {ExampleMarkup, ExampleCaret, ExampleHexThenDigit}

\* Default colours of the command: opaque white and half-transparent white.
TextColors == {White, <<One, One, One, Half>>}

InitText ==
    /\ textures = (0 :> white_bind_group)
    /\ byte_offset = 0
    /\ vertex_buffer = EmptyBuffer(6)
    /\ bind_groups_created = 0
    /\ draw_queue = <<>>
    /\ texture_queue = <<>>
    /\ text_queue = <<>>
    /\ color = White
    /\ viewport = None
    /\ next_id = 1
    /\ image_handles = <<>>
    /\ redraw_requested = FALSE
    /\ pc = "idle"
    /\ all_cmds = <<>>
    /\ texts = <<>>
    /\ i = 0
    /\ broke = FALSE
    /\ pass = <<>>
    /\ appended = <<>>
    /\ drained = <<>>
    /\ uploads_made = 0
    /\ sets_made = 0
    /\ strings_made = 0
    /\ prev_broke = FALSE
    /\ after_upload = [k \in 1..Len(draw_queue) |-> FALSE]
    /\ NoEvents
    /\ text \in Texts
    /\ cmd_color \in TextColors
    /\ spans = NotParsed
    /\ stripped = NotStripped
    /\ cursor_index = None

\* TextRenderer::prepare on the command: let spans = parse_color_spans(..)
PrepareSpans ==
    /\ ~spans.run
    /\ spans' = [run |-> TRUE] @@ parse_color_spans(text, cmd_color)
    /\ UNCHANGED <<renderer_vars, queue_vars, host_vars, frame_vars, history_vars,
                   text, cmd_color, stripped, cursor_index, event_vars>>

\* Mutant of DrawStringWidth: the measured text is also queued for drawing.
DrawStringWidthQueued ==
    /\ ~stripped.run
    /\ stripped' = [run |-> TRUE, text |-> strip_pob_escapes(text)]
    /\ text_queue' = Append(text_queue,
                            HostTextCmd(0, 0, 16, color, strip_pob_escapes(text)))
    /\ UNCHANGED <<renderer_vars, draw_queue, texture_queue, host_vars, frame_vars,
                   history_vars, text, cmd_color, spans, cursor_index, event_vars>>

\* DrawStringWidth(size, font, text):
\* let stripped = strip_pob_escapes(&text)
DrawStringWidth ==
    /\ ~stripped.run
    /\ stripped' = [run |-> TRUE, text |-> strip_pob_escapes(text)]
    /\ UNCHANGED <<renderer_vars, queue_vars, host_vars, frame_vars, history_vars,
                   text, cmd_color, spans, cursor_index, event_vars>>

\* glyph.start of the glyphs shaping lays out for a text: the byte offsets at
\* which its characters start.
GlyphStarts(bytes) == {k \in 0..(Len(bytes) - 1) : bytes[k + 1][2] = 1}

\* DrawStringCursorIndex(size, font, text, cursor_x, cursor_y): the start of
\* the first glyph whose middle is right of cursor_x, or stripped.len().
\* Where the glyphs lie is decided by shaping and cursor_x is the caller's,
\* so every glyph start can be the answer.
DrawStringCursorIndex ==
    /\ cursor_index = None
    /\ LET bytes == as_bytes(strip_pob_escapes(text))
       IN  \E idx \in GlyphStarts(bytes) \cup {Len(bytes)} : cursor_index' = Some(idx)
    /\ UNCHANGED <<renderer_vars, queue_vars, host_vars, frame_vars, history_vars,
                   text, cmd_color, spans, stripped, event_vars>>

NextText == PrepareSpans \/ DrawStringWidth

SpecText == InitText /\ [][NextText]_vars

(***************************************************************************)
(* What the markup of a text means, read off the text itself.              *)
(***************************************************************************)
\* The span texts, concatenated.
Concat(sp) == Flatten([k \in DOMAIN sp |-> sp[k][1]])

\* Length of the well-formed markup sequence that starts at position p of t
\* (^ and a digit: 2; ^x and six hex digits: 8), or 0 when there is none.
MarkupLen(t, p) ==
    IF t[p] # "^" THEN 0
    ELSE IF p + 1 <= Len(t) /\ is_ascii_digit(t[p + 1]) THEN 2
    ELSE IF /\ p + 7 <= Len(t)
            /\ t[p + 1] = "x"
            /\ \A k \in 2..7 : is_ascii_hexdigit(t[p + k])
    THEN 8
    ELSE 0

\* Every caret of t starts a well-formed markup sequence.
WellFormed(t) == \A p \in DOMAIN t : t[p] = "^" => MarkupLen(t, p) > 0

\* The positions of t outside every markup sequence, in order.
VisiblePositions(t) ==
    SelectSeq([q \in 1..Len(t) |-> q],
              LAMBDA q : \A p \in 1..q : ~(q < p + MarkupLen(t, p)))

\* t with every markup sequence deleted.
Visible(t) == LET vp == VisiblePositions(t) IN [k \in DOMAIN vp |-> t[vp[k]]]

\* The palette of ^0 .. ^9, written out.
Palette ==
    << <<Zero, Zero, Zero>>, <<One, Zero, Zero>>, <<Zero, One, Zero>>, <<Zero, Zero, One>>,
       <<One, One, Zero>>, <<Half, Half, Half>>, <<Half, Half, Half>>, <<One, One, One>>,
       <<F32(3, 4), F32(3, 4), F32(3, 4)>>, <<F32(3, 10), F32(3, 10), F32(3, 10)>> >>

\* The colour the markup sequence at position p of t selects.
MarkupColor(t, p, default) ==
    LET byte(k) == F32(16 * to_digit(t[p + k]) + to_digit(t[p + k + 1]), 255)
        rgb == IF MarkupLen(t, p) = 2 THEN Palette[to_digit(t[p + 1]) + 1]
               ELSE <<byte(2), byte(4), byte(6)>>
    IN  <<rgb[1], rgb[2], rgb[3], default[4]>>

\* The colour in force at position q of a well-formed t.
ColorAt(t, q, default) ==
    LET before == {p \in 1..(q - 1) : t[p] = "^"}
    IN  IF before = {} THEN default
        ELSE MarkupColor(t, CHOOSE p \in before : \A r \in before : r <= p, default)

\* Number of characters in the spans before span k.
RECURSIVE SpanStart(_, _)
SpanStart(sp, k) == IF k <= 1 THEN 0 ELSE SpanStart(sp, k - 1) + Len(sp[k - 1][1])

\* C11: markup round-trip.  For every text in which each caret starts a
\* well-formed sequence, parse_color_spans returns slices that concatenate to
\* the text with every markup sequence deleted, each slice has the colour of
\* the latest markup before it (the default colour before any markup), and
\* "^1Hello^x00FF00World" with opaque white gives [("Hello", red),
\* ("World", green)].
C11_MarkupRoundTrip ==
    (spans.run /\ WellFormed(text)) =>
        /\ ~spans.panic
        /\ Concat(spans.spans) = Visible(text)
        /\ LET vp == VisiblePositions(text)
           IN  \A k \in DOMAIN spans.spans :
                 \A n \in 1..Len(spans.spans[k][1]) :
                    spans.spans[k][2] =
                        ColorAt(text, vp[SpanStart(spans.spans, k) + n], cmd_color)
        /\ (text = ExampleMarkup /\ cmd_color = White) =>
              spans.spans = << <<SubSeq(ExampleMarkup, 3, 7), Red>>,
                               <<SubSeq(ExampleMarkup, 16, 20), Green>> >>

\* C11 witness: the example text has been parsed with opaque white.
C11_Witness ==
    /\ spans.run
    /\ text = ExampleMarkup
    /\ cmd_color = White
    /\ Len(spans.spans) = 2

\* The carets of t that are its last character or are followed by a character
\* that is neither a decimal digit nor x / X.
LiteralCarets(t) ==
    {p \in DOMAIN t :
        /\ t[p] = "^"
        /\ \/ p = Len(t)
           \/ ~is_ascii_digit(t[p + 1]) /\ t[p + 1] \notin {"x", "X"}}

\* Number of carets in s.
Carets(s) == Cardinality({k \in DOMAIN s : s[k] = "^"})

\* C12: literal caret in the render path.  A caret that ends the text, or is
\* followed by a character that is neither a digit nor x / X, stays in the
\* concatenated span text as a caret; "100%^" comes out unchanged.
C12_LiteralCaret ==
    (spans.run /\ ~spans.panic) =>
        /\ Carets(Concat(spans.spans)) >= Cardinality(LiteralCarets(text))
        /\ text = ExampleCaret => Concat(spans.spans) = ExampleCaret

\* The caret at position p of t starts ^x or ^X that six hex digits do not
\* follow.
MalformedHex(t, p) ==
    /\ t[p] = "^"
    /\ p + 1 <= Len(t)
    /\ t[p + 1] \in {"x", "X"}
    /\ \/ p + 7 > Len(t)
       \/ \E k \in 2..7 : ~is_ascii_hexdigit(t[p + k])

\* C13: malformed hex markup in the render path.  Stated for the texts whose
\* only caret starts a malformed ^x / ^X: the caret, the x and everything
\* after them are in the concatenated span text (which is then the whole
\* text), and every span keeps the colour of the command.
C13_MalformedHexLiteral ==
    (/\ spans.run
     /\ ~spans.panic
     /\ Carets(text) = 1
     /\ \E p \in DOMAIN text : MalformedHex(text, p)) =>
        /\ Concat(spans.spans) = text
        /\ \A k \in DOMAIN spans.spans : spans.spans[k][2] = cmd_color

\* C14: measurement and rendering strip markup identically.  The string
\* DrawStringWidth and DrawStringCursorIndex measure, strip_pob_escapes(text),
\* is the concatenation of the slices parse_color_spans hands to the renderer.
C14_SameStripping ==
    (spans.run /\ ~spans.panic /\ stripped.run) =>
        stripped.text = Concat(spans.spans)

\* C15: no panic on malformed text.  parse_color_spans returns a span list
\* for every text, multi-byte characters after ^x included.
C15_NoPanic == spans.run => ~spans.panic


(***************************************************************************)
(* SpecUploads: one frame that starts with up to MaxPending uploads in the *)
(* upload queue and a short command list.                                  *)
(***************************************************************************)
\* Pixel data of a second image.
OtherPixels == <<40, 50, 60, 255>>

PendingUploads ==
    {TextureUploadCmd(id, px, 1, 1) : id \in TextureIds, px \in {ImagePixels, OtherPixels}}

\* The commands of SpecUploads: a rectangle with each texture id.
UploadDrawItems == {Rect(0, 0, 2, 1, Red, t, UnitUv, None) : t \in TextureIds}

InitUploads ==
    /\ textures = (0 :> white_bind_group)
    /\ byte_offset = 0
    /\ vertex_buffer = EmptyBuffer(12)
    /\ bind_groups_created = 0
    /\ draw_queue \in SeqsUpTo(UploadDrawItems, 2)
    /\ texture_queue \in SeqsUpTo(PendingUploads, MaxPending)
    /\ text_queue = <<>>
    /\ color = White
    /\ viewport = None
    /\ next_id = 1
    /\ image_handles = <<>>
    /\ redraw_requested = TRUE
    /\ pc = "idle"
    /\ all_cmds = <<>>
    /\ texts = <<>>
    /\ i = 0
    /\ broke = FALSE
    /\ pass = <<>>
    /\ appended = draw_queue
    /\ drained = <<>>
    /\ uploads_made = Len(texture_queue)
    /\ sets_made = 0
    /\ strings_made = 0
    /\ prev_broke = FALSE
    /\ after_upload = [k \in 1..Len(draw_queue) |-> FALSE]
    /\ NoEvents
    /\ NoText

NextUploads == Frame

SpecUploads == InitUploads /\ [][NextUploads]_vars

(***************************************************************************)
(* C16  Text failure and the frame's geometry.                             *)
(***************************************************************************)
\* C16: when the text preparation step of a frame fails, the process does not
\* abort and the draw calls recorded for the frame are submitted and
\* presented: every way out of the text step leads to present with the
\* recorded draw calls.
C16_TextFailureKeepsGeometry ==
    [][ (pc = "text" /\ pc' # pc) =>
            (pc' = "present" /\ DrawCalls(pass') = DrawCalls(pass)) ]_vars

(***************************************************************************)
(* C17  Frame order.                                                       *)
(***************************************************************************)
\* The order of the steps of a frame; a frame whose text pass panics ends
\* there.
FrameSteps ==
    { <<"idle", "begin">>, <<"begin", "drain">>, <<"drain", "draw">>, <<"draw", "text">>,
      <<"text", "present">>, <<"text", "panicked">>, <<"present", "idle">> }

\* The text passes recorded in p.
TextPasses(p) == SelectSeq(p, LAMBDA c : c.op = "text")

\* C17: frame order.  The steps of a frame occur in the order begin_frame,
\* geometry draw calls, text pass, present: draw calls are recorded only
\* between the drain and the text pass, and the frame that reaches present
\* has recorded one text pass, after every draw call, with exactly the Text
\* items of the frame's drained list in submission order.
C17_FrameOrder ==
    [][ /\ pc' # pc => <<pc, pc'>> \in FrameSteps
        /\ (pc = "begin" /\ pc' = "drain") => byte_offset' = 0
        /\ (pc' # "idle" /\ DrawCalls(pass') # DrawCalls(pass)) => (pc = "draw" /\ pc' = "draw")
        /\ (pc' # "idle" /\ TextPasses(pass') # TextPasses(pass)) => (pc = "text" /\ pc' = "present")
        /\ pc' = "present" =>
              /\ Len(TextPasses(pass')) = 1
              /\ pass'[Len(pass')].op = "text"
              /\ pass'[Len(pass')].cmds = SelectSeq(all_cmds', LAMBDA item : item.kind = "Text")
      ]_vars

\* C17 witness: a frame with a draw call and two different texts reached
\* present.
C17_Witness ==
    /\ pc = "present"
    /\ DrawCalls(pass) # <<>>
    /\ Len(texts) = 2
    /\ texts[1] # texts[2]

(***************************************************************************)
(* C18  DrawString and the text pass.                                      *)
(***************************************************************************)
\* C18: every text command submitted with DrawString enters the frame command
\* stream and reaches the text pass: when a frame takes its commands, every
\* text command waiting in the text queue is among the frame's texts and
\* leaves the queue.
C18_TextReachesPass ==
    [][ (pc = "drain" /\ pc' = "draw") =>
            /\ \A k \in DOMAIN text_queue :
                  \E n \in DOMAIN texts' : texts'[n].text = text_queue[k].text
            /\ text_queue' = <<>> ]_vars

(***************************************************************************)
(* C19  Texture uploads are applied before geometry.                       *)
(***************************************************************************)
\* The position in queue q of the last upload for id.
LastUpload(q, id) ==
    CHOOSE k \in DOMAIN q : q[k].id = id /\ \A j \in DOMAIN q : q[j].id = id => j <= k

\* C19: every upload in the upload queue when a frame starts is loaded into
\* the registry before the frame's first draw call, in queue order (the k-th
\* upload makes the k-th new bind group, the last upload of an id is the one
\* registered), and the queue is empty afterwards.
C19_UploadsBeforeGeometry ==
    [][ /\ pc = "idle" => DrawCalls(pass) = <<>>
        /\ (pc = "idle" /\ pc' # pc) =>
              LET q == texture_queue
                  ids == {q[k].id : k \in DOMAIN q}
              IN  /\ pc' = "begin"
                  /\ texture_queue' = <<>>
                  /\ DOMAIN textures' = DOMAIN textures \cup ids
                  /\ \A id \in DOMAIN textures \ ids : textures'[id] = textures[id]
                  /\ \A id \in ids :
                        LET k == LastUpload(q, id)
                        IN  textures'[id] = BindGroup(bind_groups_created + k, q[k].rgba,
                                                      q[k].width, q[k].height)
        /\ (pc' # "idle" /\ DrawCalls(pass') # DrawCalls(pass)) => pc = "draw"
      ]_vars

\* C19 witness: the frame started with two uploads for id 1, the second is
\* the one registered, and a draw call has been recorded.
C19_Witness ==
    /\ bind_groups_created = 2
    /\ DOMAIN textures = {0, 1}
    /\ textures[1] = BindGroup(2, OtherPixels, 1, 1)
    /\ texture_queue = <<>>
    /\ DrawCalls(pass) # <<>>

(***************************************************************************)
(* C20  Scissor follows the group.                                         *)
(***************************************************************************)
FullScreen == <<0, 0, screen_size[1], screen_size[2]>>

\* The clip of the group that starts at item: its rectangle, or the full
\* screen when it has none.
GroupClipRect(item) == IF clip_of(item) = None THEN FullScreen ELSE clip_of(item)[2]

\* r with width and height raised to at least 1.
AtLeastOne(r) ==
    <<r[1], r[2], IF r[3] < 1 THEN 1 ELSE r[3], IF r[4] < 1 THEN 1 ELSE r[4]>>

\* An iteration of draw that records a draw call.
DrawCallStep == pc = "draw" /\ Len(DrawCalls(pass')) = Len(DrawCalls(pass)) + 1

\* C20 as stated: at every draw call the scissor rectangle in effect is the
\* clip of the group being drawn, or the full screen when it has no clip.
C20_ScissorIsClip ==
    [][ DrawCallStep =>
            ScissorAt(pass', Len(pass')) = GroupClipRect(all_cmds[i + 1]) ]_vars

\* C20 amended: at every draw call the scissor rectangle in effect is the
\* clip of the group being drawn with its width and height raised to at least
\* 1, or the full screen when the group has no clip.
C20_ScissorIsClampedClip ==
    [][ DrawCallStep =>
            ScissorAt(pass', Len(pass')) = AtLeastOne(GroupClipRect(all_cmds[i + 1])) ]_vars

\* C20 witness: a draw call under a clip is followed by a draw call of an
\* unclipped group under the full-screen scissor, and a group with a
\* zero-width clip was drawn under a scissor of width 1.
C20_Witness ==
    \E j, k \in DOMAIN pass :
       /\ j < k
       /\ pass[j].op = "draw" /\ ScissorAt(pass, j) # FullScreen
       /\ pass[k].op = "draw" /\ ScissorAt(pass, k) = FullScreen
       /\ \E n \in DOMAIN pass :
             pass[n].op = "draw" /\ ScissorAt(pass, n) = AtLeastOne(ClipB)

(***************************************************************************)
(* C21  A group without vertices.                                          *)
(***************************************************************************)
\* An iteration of draw over a group made only of Text items.
EmptyGroupStep == pc = "draw" /\ i < Len(all_cmds) /\ GroupVertices(all_cmds, i, i') = <<>>

\* C21 as stated: a zero-vertex group is skipped with no effect: the
\* iteration over it records no scissor change, no bind-group change and no
\* draw call in the pass, writes nothing to the vertex buffer and leaves the
\* cursor where it was.
C21_EmptyGroupNoEffect ==
    [][ EmptyGroupStep =>
            /\ pass' = pass
            /\ vertex_buffer' = vertex_buffer
            /\ byte_offset' = byte_offset ]_vars

(***************************************************************************)
(* A frame over lists of aligned texts.                                    *)
(***************************************************************************)
MaxTexts == 2

\* Alignment tags: the two prepare knows, the left tag, and one it does not
\* know.
Aligns == {"LEFT", "RIGHT_X", "CENTER_X", "CENTER"}

\* Texts anchored at x = 0 and x = 100, with every alignment tag, with and
\* without markup.
AlignTexts ==
    {Text(x, 1, 16, t, White, a, "VAR", None) :
        x \in {0, 100}, a \in Aligns, t \in {<<"^", "1", "H", "i">>, <<"O", "k">>}}

AlignItems == AlignTexts \cup {Rect(0, 0, 2, 1, Red, 0, UnitUv, None)}

InitPrepare ==
    /\ textures = (0 :> white_bind_group)
    /\ byte_offset = 0
    /\ vertex_buffer = EmptyBuffer(MaxCapVertices)
    /\ bind_groups_created = 0
    /\ draw_queue \in SeqsUpTo(AlignItems, MaxTexts)
    /\ texture_queue \in SeqsUpTo(UploadCmds, 1)
    /\ color = White
    /\ viewport = None
    /\ next_id = 1
    /\ image_handles = <<>>
    /\ redraw_requested = TRUE
    /\ pc = "idle"
    /\ all_cmds = <<>>
    /\ texts = <<>>
    /\ i = 0
    /\ broke = FALSE
    /\ pass = <<>>
    /\ appended = draw_queue
    /\ drained = <<>>
    /\ uploads_made = Len(texture_queue)
    /\ sets_made = 0
    /\ prev_broke = FALSE
    /\ after_upload = [k \in 1..Len(draw_queue) |-> FALSE]
    /\ NoEvents
    /\ text_queue = <<>>
    /\ strings_made = 0
    /\ NoText

NextPrepare == Frame

SpecPrepare == InitPrepare /\ [][NextPrepare]_vars

(***************************************************************************)
(* C22  Alignment.                                                         *)
(***************************************************************************)
\* The text areas of the text passes recorded in the pass.
TextAreas == Flatten([k \in 1..Len(TextPasses(pass)) |-> TextPasses(pass)[k].text_areas])

\* The commands of the text passes recorded in the pass, in the same order.
TextAreaCmds == Flatten([k \in 1..Len(TextPasses(pass)) |-> TextPasses(pass)[k].cmds])

\* C22: for a text command with anchor x whose line was measured w wide, the
\* left edge of its text area is x under left alignment, x - w under right
\* alignment ("RIGHT_X") and x - w/2 under centre alignment ("CENTER_X"):
\* twice the left edge is 2x, 2x - 2w and 2x - w.  With w = 40, centre
\* alignment and x = 100 the left edge is 80.
C22_Alignment ==
    /\ Len(TextAreas) = Len(TextAreaCmds)
    /\ \A k \in DOMAIN TextAreas :
          LET cmd == TextAreaCmds[k]
              w == TextAreas[k].buffer.line_w
              left == TextAreas[k].left
          IN  /\ left[2] \in {1, 2}
              /\ cmd.align = "LEFT" => left[1] * 2 = 2 * cmd.x * left[2]
              /\ cmd.align = "RIGHT_X" => left[1] * 2 = (2 * cmd.x - 2 * w) * left[2]
              /\ cmd.align = "CENTER_X" => left[1] * 2 = (2 * cmd.x - w) * left[2]
              /\ (cmd.align = "CENTER_X" /\ cmd.x = 100 /\ w = 40) => left = <<80, 1>>

\* C22 witness: a frame has placed a centred text anchored at 100 and measured
\* 40 wide at 80, and a right-aligned text measured 3 wide at 97.
C22_Witness ==
    /\ \E k \in DOMAIN TextAreas :
          /\ TextAreaCmds[k].align = "CENTER_X" /\ TextAreaCmds[k].x = 100
          /\ TextAreas[k].buffer.line_w = 40
          /\ TextAreas[k].left = <<80, 1>>
    /\ \E k \in DOMAIN TextAreas :
          /\ TextAreaCmds[k].align = "RIGHT_X" /\ TextAreas[k].buffer.line_w = 3
          /\ TextAreas[k].left = <<97, 1>>

(***************************************************************************)
(* The measurement functions called while frames are rendered.             *)
(***************************************************************************)
\* The texts measured: the markup example, a short text with markup and a
\* text with a three-byte character.
MeasureTexts == {ExampleMarkup, <<"^", "1", "H", "i">>, <<"euro", "x">>}

InitMeasure ==
    /\ textures = (0 :> white_bind_group)
    /\ byte_offset = 0
    /\ vertex_buffer = EmptyBuffer(MaxCapVertices)
    /\ bind_groups_created = 0
    /\ draw_queue \in SeqsUpTo(UploadDrawItems, 1)
    /\ texture_queue \in SeqsUpTo(UploadCmds, 1)
    /\ text_queue \in SeqsUpTo({HostTextCmd(0, 0, 16, Red, <<"H", "i">>)}, 1)
    /\ color \in Colors
    /\ viewport \in Viewports
    /\ next_id = 1
    /\ image_handles = <<>>
    /\ redraw_requested = TRUE
    /\ pc = "idle"
    /\ all_cmds = <<>>
    /\ texts = <<>>
    /\ i = 0
    /\ broke = FALSE
    /\ pass = <<>>
    /\ appended = draw_queue
    /\ drained = <<>>
    /\ uploads_made = Len(texture_queue)
    /\ sets_made = 0
    /\ prev_broke = FALSE
    /\ after_upload = [k \in 1..Len(draw_queue) |-> FALSE]
    /\ NoEvents
    /\ strings_made = 0
    /\ text \in MeasureTexts
    /\ cmd_color = White
    /\ spans = NotParsed
    /\ stripped = NotStripped
    /\ cursor_index = None

NextMeasure == Frame \/ DrawStringWidth \/ DrawStringCursorIndex

SpecMeasure == InitMeasure /\ [][NextMeasure]_vars

(***************************************************************************)
(* C23  Measurement has no side effects.                                   *)
(***************************************************************************)
\* A step in which DrawStringWidth or DrawStringCursorIndex returns.
MeasureStep == stripped' # stripped \/ cursor_index' # cursor_index

\* C23: a call of DrawStringWidth or DrawStringCursorIndex, inside or outside
\* a frame, leaves the draw queue, the text queue, the texture upload queue,
\* the current draw colour, the current viewport and the texture registry
\* unchanged.
C23_MeasureNoSideEffect ==
    [][ MeasureStep =>
            /\ draw_queue' = draw_queue
            /\ text_queue' = text_queue
            /\ texture_queue' = texture_queue
            /\ color' = color
            /\ viewport' = viewport
            /\ textures' = textures ]_vars

\* C23 witness: both functions have returned, one of them an index inside the
\* text, while commands, a text and an upload are queued and colour and
\* viewport are set.
C23_Witness ==
    /\ stripped.run
    /\ cursor_index # None /\ cursor_index # Some(0)
    /\ draw_queue # <<>> /\ text_queue # <<>> /\ texture_queue # <<>>
    /\ color = Red /\ viewport = Some(ClipA)

(***************************************************************************)
(* C24  Group key.                                                         *)
(***************************************************************************)
\* Two clips are equal when both are absent or both are present with equal
\* x, y, width and height.
ClipEq(a, b) ==
    \/ a = None /\ b = None
    \/ /\ a # None /\ b # None
       /\ \A n \in 1..4 : a[2][n] = b[2][n]

\* Two geometry items have equal (texture id, clip).
KeyEq(a, b) == a.texture_id = b.texture_id /\ ClipEq(a.clip, b.clip)

\* An iteration of the outer loop of draw; it forms the group of the items
\* i + 1 .. i' of the list.
FormsGroup == pc = "draw" /\ i < Len(all_cmds)

\* C24: every group draw forms is a non-empty contiguous slice of the list
\* whose geometry items all have the same texture id and the same clip, and
\* two geometry items next to each other in the list with equal (texture id,
\* clip) are not separated by the end of a group.
C24_GroupKey ==
    [][ FormsGroup =>
            /\ i < i' /\ i' <= Len(all_cmds)
            /\ all_cmds' = all_cmds
            /\ \A a, b \in (i + 1)..i' :
                  (IsGeometry(all_cmds[a]) /\ IsGeometry(all_cmds[b]))
                      => KeyEq(all_cmds[a], all_cmds[b])
            /\ (/\ i' < Len(all_cmds)
                /\ IsGeometry(all_cmds[i'])
                /\ IsGeometry(all_cmds[i' + 1]))
                   => ~KeyEq(all_cmds[i'], all_cmds[i' + 1]) ]_vars

\* C24 witness: of three geometry items with one texture id, the first two
\* share a clip and were drawn by one draw call, and the third, with another
\* clip, was put in a group of its own.
C24_Witness ==
    /\ Len(all_cmds) = 3 /\ i = 3
    /\ \A k \in 1..3 : IsGeometry(all_cmds[k])
    /\ KeyEq(all_cmds[1], all_cmds[2])
    /\ all_cmds[2].texture_id = all_cmds[3].texture_id
    /\ ~ClipEq(all_cmds[2].clip, all_cmds[3].clip)
    /\ DrawCalls(pass)[1] = [op |-> "draw", first |-> 0, last |-> 12]
    /\ Len(SelectSeq(pass, LAMBDA c : c.op = "set_scissor_rect")) = 2

(***************************************************************************)
(* C25  One draw call per group.                                           *)
(***************************************************************************)
\* The number of Rect and Quad items among the items a + 1 .. b of the list.
GeometryCount(cmds, a, b) == Cardinality({k \in (a + 1)..b : IsGeometry(cmds[k])})

\* C25: an iteration of draw over a group with n = 6 x (number of Rect and
\* Quad items of the group) vertices that fit below the capacity records
\* exactly one draw call, for the vertex range [cursor/32, cursor/32 + n),
\* and that range of the buffer then holds the n vertices of the group; an
\* iteration over a group without vertices records no draw call.
C25_OneDrawCallPerGroup ==
    [][ FormsGroup =>
            LET n == 6 * GeometryCount(all_cmds, i, i')
                first == byte_offset \div VertexSize
            IN  /\ Len(GroupVertices(all_cmds, i, i')) = n
                /\ n = 0 => DrawCalls(pass') = DrawCalls(pass)
                /\ (n > 0 /\ byte_offset + n * VertexSize <= buffer_cap) =>
                      /\ DrawCalls(pass') =
                            Append(DrawCalls(pass),
                                   [op |-> "draw", first |-> first, last |-> first + n])
                      /\ SubSeq(vertex_buffer', first + 1, first + n)
                            = ListVertices(SubSeq(all_cmds, i + 1, i')) ]_vars

\* C25 witness: a frame without exhaustion went through a list of three
\* items, one of them a Text, in three groups and issued the draw calls
\* [0, 6) and [6, 12).
C25_Witness ==
    /\ DrawDone /\ ~broke
    /\ Len(all_cmds) = 3
    /\ Len(SelectSeq(pass, LAMBDA c : c.op = "set_bind_group")) = 3
    /\ DrawCalls(pass) = << [op |-> "draw", first |-> 0, last |-> 6],
                            [op |-> "draw", first |-> 6, last |-> 12] >>

(***************************************************************************)
(* C26  Scissor clamp.                                                     *)
(***************************************************************************)
\* The scissor rectangles set in a pass, in issue order.
Scissors(p) == SelectSeq(p, LAMBDA c : c.op = "set_scissor_rect")

Max(a, b) == IF a >= b THEN a ELSE b

\* C26: the iteration of draw over a group whose first item has the clip
\* (x, y, w, h) sets exactly one scissor rectangle, (x, y, max(w, 1),
\* max(h, 1)), and no scissor rectangle set in a pass has width or height 0.
C26_ScissorClamp ==
    [][ /\ FormsGroup =>
              /\ Len(Scissors(pass')) = Len(Scissors(pass)) + 1
              /\ clip_of(all_cmds[i + 1]) # None =>
                    LET c == clip_of(all_cmds[i + 1])[2]
                    IN  Scissors(pass')[Len(Scissors(pass'))].rect
                           = <<c[1], c[2], Max(c[3], 1), Max(c[4], 1)>>
        /\ \A k \in DOMAIN Scissors(pass') :
              Scissors(pass')[k].rect[3] >= 1 /\ Scissors(pass')[k].rect[4] >= 1 ]_vars

\* C26 witness: the scissor (1, 0, 1, 1) was set for a group whose clip is
\* (1, 0, 0, 1), and the scissor (0, 0, 2, 1) for a group with that clip.
C26_Witness ==
    /\ \E k \in DOMAIN all_cmds :
          k <= i /\ IsGeometry(all_cmds[k]) /\ all_cmds[k].clip = Some(<<1, 0, 0, 1>>)
    /\ \E k \in DOMAIN Scissors(pass) : Scissors(pass)[k].rect = <<1, 0, 1, 1>>
    /\ \E k \in DOMAIN Scissors(pass) : Scissors(pass)[k].rect = <<0, 0, 2, 1>>

(***************************************************************************)
(* A frame over lists of rectangles and quads of every shape.              *)
(***************************************************************************)
MaxItems == 2

\* UV rectangles (l, t, r, b): in order, top and bottom swapped, left and
\* right swapped.
UvRects == {<<0, 0, 1, 1>>, <<0, 1, 1, 0>>, <<1, 0, 0, 1>>}

\* Corner lists of a quad: counter-clockwise, clockwise, and self-crossing.
QuadShapes ==
    { <<<<0, 0>>, <<2, 0>>, <<2, 1>>, <<0, 1>>>>,
      <<<<0, 1>>, <<2, 1>>, <<2, 0>>, <<0, 0>>>>,
      <<<<0, 0>>, <<2, 1>>, <<2, 0>>, <<0, 1>>>> }

\* UV lists of a quad: the unit square from its first corner, and the same
\* turned by one corner.
QuadUvLists == {QuadUvs, <<<<1, 0>>, <<1, 1>>, <<0, 1>>, <<0, 0>>>>}

HalfBlue == <<Zero, Zero, One, Half>>

GeometryItems ==
    {Rect(x, 0, 2, 1, c, t, uv, None) :
        x \in {0, 1}, c \in {Red, HalfBlue}, t \in TextureIds, uv \in UvRects}
    \cup {Quad(0, c, None, ps, uvs) :
            c \in {Red, HalfBlue}, ps \in QuadShapes, uvs \in QuadUvLists}
    \cup {SampleText}

InitGeometry ==
    /\ textures = (0 :> white_bind_group)
    /\ byte_offset = 0
    /\ vertex_buffer = EmptyBuffer(MaxCapVertices)
    /\ bind_groups_created = 0
    /\ draw_queue \in SeqsUpTo(GeometryItems, MaxItems)
    /\ texture_queue \in SeqsUpTo(UploadCmds, 1)
    /\ color = White
    /\ viewport = None
    /\ next_id = 1
    /\ image_handles = <<>>
    /\ redraw_requested = TRUE
    /\ pc = "idle"
    /\ all_cmds = <<>>
    /\ texts = <<>>
    /\ i = 0
    /\ broke = FALSE
    /\ pass = <<>>
    /\ appended = draw_queue
    /\ drained = <<>>
    /\ uploads_made = Len(texture_queue)
    /\ sets_made = 0
    /\ prev_broke = FALSE
    /\ after_upload = [k \in 1..Len(draw_queue) |-> FALSE]
    /\ NoEvents
    /\ text_queue = <<>>
    /\ strings_made = 0
    /\ NoText

NextGeometry == Frame

SpecGeometry == InitGeometry /\ [][NextGeometry]_vars

\* The vertices the draw calls read for the k-th item of the frame's list:
\* the six after those of the geometry items before it, or <<>> when the
\* draw calls do not reach that far.
DrawnFor(k) ==
    LET before == 6 * GeometryCount(all_cmds, 0, k - 1)
    IN  IF before + 6 <= Len(DrawnVertices)
        THEN SubSeq(DrawnVertices, before + 1, before + 6)
        ELSE <<>>

(***************************************************************************)
(* C27  Rect expansion.                                                    *)
(***************************************************************************)
\* C27: a drawn Rect at (x, y) with size (w, h) and UV rectangle (l, t, r, b)
\* has contributed exactly six vertices, in the order top-left, top-right,
\* bottom-left, top-right, bottom-right, bottom-left, with the positions
\* (x, y), (x+w, y), (x, y+h), (x+w, y+h) and the UVs (l, t), (r, t), (l, b),
\* (r, b) as given, also when l > r or t > b; each carries the Rect's colour.
C27_RectExpansion ==
    DrawDone =>
        \A k \in DOMAIN all_cmds :
           (all_cmds[k].kind = "Rect" /\ DrawnFor(k) # <<>>) =>
              LET cmd == all_cmds[k]
                  l == cmd.uv[1]
                  t == cmd.uv[2]
                  r == cmd.uv[3]
                  b == cmd.uv[4]
                  top_left == [position |-> <<cmd.x, cmd.y>>, uv |-> <<l, t>>,
                               color |-> cmd.color]
                  top_right == [position |-> <<cmd.x + cmd.w, cmd.y>>, uv |-> <<r, t>>,
                                color |-> cmd.color]
                  bottom_left == [position |-> <<cmd.x, cmd.y + cmd.h>>, uv |-> <<l, b>>,
                                  color |-> cmd.color]
                  bottom_right == [position |-> <<cmd.x + cmd.w, cmd.y + cmd.h>>,
                                   uv |-> <<r, b>>, color |-> cmd.color]
              IN  DrawnFor(k) = <<top_left, top_right, bottom_left,
                                  top_right, bottom_right, bottom_left>>

\* C27 witness: a frame drew a Rect whose UV rectangle has top below bottom
\* and then a Rect whose UV rectangle has left right of right.
C27_Witness ==
    /\ DrawDone
    /\ Len(all_cmds) = 2 /\ Len(DrawnVertices) = 12
    /\ all_cmds[1].kind = "Rect" /\ all_cmds[1].uv = <<0, 1, 1, 0>>
    /\ all_cmds[2].kind = "Rect" /\ all_cmds[2].uv = <<1, 0, 0, 1>>
    /\ DrawnVertices[1].uv = <<0, 1>> /\ DrawnVertices[5].uv = <<1, 0>>
    /\ DrawnVertices[7].uv = <<1, 0>> /\ DrawnVertices[11].uv = <<0, 1>>

(***************************************************************************)
(* C28  Quad expansion.                                                    *)
(***************************************************************************)
\* C28: a drawn Quad with corners p0..p3 and UVs uv0..uv3 has contributed
\* exactly six vertices, the corners 0, 1, 2, 0, 2, 3 in that order, each
\* with its UV and the Quad's colour, whatever the shape of the quad; Text
\* items contribute none: a frame drawn without exhaustion has drawn six
\* vertices per Rect or Quad of its list and no other.
C28_QuadExpansion ==
    DrawDone =>
        /\ \A k \in DOMAIN all_cmds :
              (all_cmds[k].kind = "Quad" /\ DrawnFor(k) # <<>>) =>
                 LET cmd == all_cmds[k]
                     corner(n) == [position |-> cmd.positions[n + 1],
                                   uv |-> cmd.uvs[n + 1],
                                   color |-> cmd.color]
                 IN  DrawnFor(k) = <<corner(0), corner(1), corner(2),
                                     corner(0), corner(2), corner(3)>>
        /\ (pc = "present" /\ ~broke) =>
              Len(DrawnVertices) =
                 6 * Cardinality({k \in DOMAIN all_cmds : all_cmds[k].kind \in {"Rect", "Quad"}})

\* C28 witness: a frame drew a Text item and a self-crossing quad, and the
\* six vertices of the quad are all it drew.
C28_Witness ==
    /\ pc = "present" /\ ~broke
    /\ Len(all_cmds) = 2
    /\ all_cmds[1].kind = "Text"
    /\ all_cmds[2].kind = "Quad"
    /\ all_cmds[2].positions = <<<<0, 0>>, <<2, 1>>, <<2, 0>>, <<0, 1>>>>
    /\ Len(DrawnVertices) = 6
    /\ DrawnVertices[4].position = <<0, 0>> /\ DrawnVertices[6].position = <<0, 1>>

(***************************************************************************)
(* C29  Markup never sets alpha.                                           *)
(***************************************************************************)
\* The characters of t that follow the markup sequence at position p, up to
\* the next caret or the end of t.
SegmentAfter(t, p) ==
    LET from == p + MarkupLen(t, p)
        carets == {q \in from..Len(t) : t[q] = "^"}
        to == IF carets = {} THEN Len(t)
              ELSE (CHOOSE q \in carets : \A r \in carets : q <= r) - 1
    IN  SubSeq(t, from, to)

\* C29 as stated: the alpha of every span parse_color_spans returns is the
\* alpha of the command's default colour, and the characters that follow a
\* ^N or a ^xRRGGBB of the text are returned as a span whose red, green and
\* blue are entry N of the palette, or RR/255, GG/255 and BB/255.
C29_MarkupKeepsAlpha ==
    (spans.run /\ ~spans.panic) =>
        /\ \A k \in DOMAIN spans.spans : spans.spans[k][2][4] = cmd_color[4]
        /\ \A p \in DOMAIN text :
              (MarkupLen(text, p) > 0 /\ SegmentAfter(text, p) # <<>>) =>
                 \E k \in DOMAIN spans.spans :
                    /\ spans.spans[k][1] = SegmentAfter(text, p)
                    /\ spans.spans[k][2] = MarkupColor(text, p, cmd_color)

(***************************************************************************)
(* The texture registry under frames, uploads of any id, and the image     *)
(* handle functions.                                                       *)
(***************************************************************************)
InitRegistry ==
    /\ textures = (0 :> white_bind_group)
    /\ byte_offset = 0
    /\ vertex_buffer = EmptyBuffer(MaxCapVertices)
    /\ bind_groups_created = 0
    /\ draw_queue \in SeqsUpTo(UploadDrawItems, 1)
    /\ texture_queue \in SeqsUpTo(PendingUploads, MaxPending)
    /\ text_queue = <<>>
    /\ color = White
    /\ viewport = None
    /\ next_id = 1
    /\ image_handles = <<>>
    /\ redraw_requested = TRUE
    /\ pc = "idle"
    /\ all_cmds = <<>>
    /\ texts = <<>>
    /\ i = 0
    /\ broke = FALSE
    /\ pass = <<>>
    /\ appended = draw_queue
    /\ drained = <<>>
    /\ uploads_made = 0
    /\ sets_made = 0
    /\ prev_broke = FALSE
    /\ after_upload = [k \in 1..Len(draw_queue) |-> FALSE]
    /\ NoEvents
    /\ strings_made = 0
    /\ NoText

NextRegistry == Frame \/ AboutToWait \/ NewImageHandle \/ Load \/ Unload

SpecRegistry == InitRegistry /\ [][NextRegistry]_vars

(***************************************************************************)
(* C30  The registry is append-only with in-place replace.                 *)
(***************************************************************************)
\* The ids whose resolution is looked at: the ids uploads name, and one more.
ProbeIds == TextureIds \cup {2}

\* C30 as stated: no step (a frame step, NewImageHandle, Load, Unload)
\* removes an id from the registry; after the load_texture calls of a frame
\* every id they name resolves to the texture of the most recent call for
\* that id, and every other id resolves as it did before.
C30_RegistryAppendOnly ==
    [][ /\ DOMAIN textures \subseteq DOMAIN textures'
        /\ (pc = "idle" /\ pc' = "begin") =>
              LET q == texture_queue
                  ids == {q[k].id : k \in DOMAIN q}
              IN  /\ \A id \in ids :
                        LET k == LastUpload(q, id)
                            bg == ResolveBindGroup(textures', id)
                        IN  /\ bg.serial = bind_groups_created + k
                            /\ bg.rgba = q[k].rgba
                            /\ bg.width = q[k].width /\ bg.height = q[k].height
                  /\ \A id \in ProbeIds \ ids :
                        ResolveBindGroup(textures', id) = ResolveBindGroup(textures, id) ]_vars

(***************************************************************************)
(* C31  Stripping for measurement keeps malformed markup.                  *)
(***************************************************************************)
\* Length of the well-formed markup sequence that starts at position p of t,
\* with ^x and ^X both accepted before six hex digits, or 0.
MarkupLenAnyCase(t, p) ==
    IF t[p] # "^" THEN 0
    ELSE IF p + 1 <= Len(t) /\ is_ascii_digit(t[p + 1]) THEN 2
    ELSE IF /\ p + 7 <= Len(t)
            /\ t[p + 1] \in {"x", "X"}
            /\ \A k \in 2..7 : is_ascii_hexdigit(t[p + k])
    THEN 8
    ELSE 0

\* t with exactly its well-formed markup sequences deleted.
WithoutMarkup(t) ==
    LET keep == SelectSeq([q \in 1..Len(t) |-> q],
                          LAMBDA q : \A p \in 1..q : ~(q < p + MarkupLenAnyCase(t, p)))
    IN  [k \in DOMAIN keep |-> t[keep[k]]]

\* C31 as stated: strip_pob_escapes removes exactly the well-formed sequences
\* (^ and a digit, ^x or ^X and six hex digits) and keeps every other
\* character, a ^x with fewer than six hex digits and a trailing caret
\* included.
C31_StripKeepsMalformed ==
    stripped.run => stripped.text = WithoutMarkup(text)

(***************************************************************************)
(* C32  Texture ids are unique.                                            *)
(***************************************************************************)
\* C32: the handles NewImageHandle has returned carry, in call order, the
\* ids 1, 2, 3, ...; no two of them share an id and none has id 0, whatever
\* other host calls and frame steps happened in between.
C32_UniqueIds ==
    /\ \A k \in DOMAIN image_handles : image_handles[k].id = k
    /\ \A j, k \in DOMAIN image_handles :
          j # k => image_handles[j].id # image_handles[k].id
    /\ \A k \in DOMAIN image_handles : image_handles[k].id # 0

\* C32 witness: two handles exist, made before and after a Load of the first,
\* the first with id 1 and the second with id 2.
C32_Witness ==
    /\ Len(image_handles) = 2
    /\ image_handles[1].id = 1 /\ image_handles[1].valid
    /\ image_handles[2].id = 2 /\ ~image_handles[2].valid

(***************************************************************************)
(* Renderer::draw called more than once between two begin_frame calls.     *)
(* App::window_event calls it once per frame; Renderer::draw is public and *)
(* a frame may record a further render pass and call it again with the     *)
(* commands queued meanwhile.                                              *)
(***************************************************************************)
\* A further call of Renderer::draw in the current frame, with the commands
\* that were queued since the drain.
DrawAgain ==
    /\ pc = "text"
    /\ draw_queue # <<>>
    /\ LET d == DrainAll(draw_queue)
       IN  /\ all_cmds' = d.taken
           /\ draw_queue' = d.left
           /\ drained' = drained \o d.taken
    /\ pass' = pass \o DrawPrelude
    /\ i' = 0
    /\ pc' = "draw"
    /\ UNCHANGED <<renderer_vars, texture_queue, host_vars, redraw_requested, broke,
                   texts, appended, uploads_made, sets_made, prev_broke, after_upload>>
    /\ UNCHANGED <<text_queue, strings_made, text_vars, event_vars>>

NextTwoDraws == Frame \/ AboutToWait \/ DrawImage \/ DrawImageQuad \/ DrawAgain

SpecTwoDraws == Init /\ [][NextTwoDraws]_vars

(***************************************************************************)
(* C33  No vertex data is overwritten within a frame.                      *)
(***************************************************************************)
\* C33: the vertex ranges of the draw calls recorded since begin_frame start
\* at 0, follow each other without gap or overlap and end at the cursor; a
\* step that records a draw call has written that group's vertices into its
\* range, and no step of the frame changes the range of a draw call recorded
\* earlier, also when draw is called again in the frame.
C33_NoOverwrite ==
    [][ LET calls == DrawCalls(pass)
            calls2 == DrawCalls(pass')
        IN  /\ \A k \in DOMAIN calls2 :
                  /\ calls2[k].first = (IF k = 1 THEN 0 ELSE calls2[k - 1].last)
                  /\ calls2[k].first < calls2[k].last
            /\ calls2 # <<>> => calls2[Len(calls2)].last * VertexSize = byte_offset'
            /\ DrawCallStep =>
                  SubSeq(vertex_buffer', calls2[Len(calls2)].first + 1, calls2[Len(calls2)].last)
                     = GroupVertices(all_cmds, i, i')
            /\ pass' # <<>> =>
                  \A k \in DOMAIN calls :
                     SubSeq(vertex_buffer', calls[k].first + 1, calls[k].last)
                        = SubSeq(vertex_buffer, calls[k].first + 1, calls[k].last) ]_vars

\* C33 witness: a frame in which draw was called twice is ready to be
\* submitted with the draw calls [0, 6) and [6, 12), the first range holding
\* a rectangle and the second a quad.
C33_Witness ==
    /\ pc = "present"
    /\ Len(SelectSeq(pass, LAMBDA c : c.op = "set_pipeline")) = 2
    /\ DrawCalls(pass) = << [op |-> "draw", first |-> 0, last |-> 6],
                            [op |-> "draw", first |-> 6, last |-> 12] >>
    /\ Len(drained) = 2
    /\ SubSeq(vertex_buffer, 1, 6) = ItemVertices(drained[1])
    /\ SubSeq(vertex_buffer, 7, 12) = ItemVertices(drained[2])
    /\ drained[1].kind = "Rect" /\ drained[2].kind = "Quad"

(***************************************************************************)
(* C34  A group is drawn whole or not at all.                              *)
(***************************************************************************)
\* C34: in every loop iteration of draw over a group with n > 0 vertices,
\* either the group fits behind the cursor and the draw call covers exactly
\* its n vertices, all written, or it does not fit and the step writes no
\* vertex, records no draw call and leaves the cursor where it was, also
\* when the group's first item alone would fit; a group with more vertices
\* than the buffer holds is never given a draw call.
C34_WholeOrNothing ==
    [][ (pc = "draw" /\ i < Len(all_cmds)) =>
           LET vertices == GroupVertices(all_cmds, i, i')
               n == Len(vertices)
               calls == DrawCalls(pass)
               calls2 == DrawCalls(pass')
           IN  /\ (n > 0 /\ byte_offset + n * VertexSize > buffer_cap) =>
                      /\ vertex_buffer' = vertex_buffer
                      /\ calls2 = calls
                      /\ byte_offset' = byte_offset
               /\ n > Len(vertex_buffer) => calls2 = calls
               /\ calls2 # calls =>
                      /\ calls2 = Append(calls, [op |-> "draw",
                                                 first |-> byte_offset \div VertexSize,
                                                 last |-> byte_offset \div VertexSize + n])
                      /\ SubSeq(vertex_buffer', byte_offset \div VertexSize + 1,
                                byte_offset \div VertexSize + n) = vertices
                      /\ byte_offset' = byte_offset + n * VertexSize ]_vars

\* C34 witness: draw met a group of two rectangles, twelve vertices, with
\* an empty buffer of eight vertices, in which the first rectangle alone
\* would fit; it ended with nothing written, no draw call and the cursor
\* at 0.
C34_Witness ==
    /\ pc = "text"
    /\ broke
    /\ Len(vertex_buffer) = 8
    /\ Len(all_cmds) = 2
    /\ i = 2
    /\ Len(GroupVertices(all_cmds, 0, 2)) = 12
    /\ byte_offset = 0
    /\ vertex_buffer = EmptyBuffer(8)
    /\ DrawCalls(pass) = <<>>

(***************************************************************************)
(* C35  A texture is loaded before it is drawn.                            *)
(***************************************************************************)
\* The position in `appended` of the command all_cmds[k] of the current
\* frame: the frames' lists, concatenated, are a prefix of the append log.
LogIndex(k) == Len(drained) - Len(all_cmds) + k

rest_vars == <<renderer_vars, queue_vars, host_vars, frame_vars, history_vars, text_vars>>

InitEvents ==
    /\ textures = (0 :> white_bind_group)
    /\ byte_offset = 0
    /\ vertex_buffer = EmptyBuffer(6)
    /\ bind_groups_created = 0
    /\ draw_queue = <<>>
    /\ texture_queue = <<>>
    /\ text_queue = <<>>
    /\ color = White
    /\ viewport = None
    /\ next_id = 1
    /\ image_handles = <<>>
    /\ redraw_requested = FALSE
    /\ pc = "idle"
    /\ all_cmds = <<>>
    /\ texts = <<>>
    /\ i = 0
    /\ broke = FALSE
    /\ pass = <<>>
    /\ appended = <<>>
    /\ drained = <<>>
    /\ uploads_made = 0
    /\ sets_made = 0
    /\ strings_made = 0
    /\ prev_broke = FALSE
    /\ after_upload = <<>>
    /\ NoText
    /\ main_object = None
    /\ main_object_locked = FALSE
    /\ script = "launch"
    /\ event = None
    /\ pressed_keys = {}
    /\ last_event = [k \in KeyNames |-> "none"]
    /\ is_key_down = None

\* host.launch() has executed Launch.lua.
LaunchReturn ==
    /\ script = "launch"
    /\ script' = "none"
    /\ UNCHANGED <<main_object, main_object_locked, event, pressed_keys, last_event,
                   is_key_down>>
    /\ UNCHANGED rest_vars

\* SetMainObject(obj), called by the script: `*mo.lock().unwrap() = Some(..)`.
\* Locking a std::sync::Mutex the thread already holds does not return: it
\* blocks for ever or panics.
SetMainObject ==
    /\ script \in {"launch", "callback"}
    /\ IF main_object_locked
       THEN /\ script' \in {"blocked", "panicked"}
            /\ UNCHANGED main_object
       ELSE /\ \E obj \in Objects : main_object' = Some(obj)
            /\ UNCHANGED script
    /\ UNCHANGED <<main_object_locked, event, pressed_keys, last_event, is_key_down>>
    /\ UNCHANGED rest_vars

\* IsKeyDown(key), called by the script.
IsKeyDown ==
    /\ script \in {"launch", "callback"}
    /\ \E key \in KeyNames : is_key_down' = Some(<<key, key \in pressed_keys>>)
    /\ UNCHANGED <<main_object, main_object_locked, script, event, pressed_keys, last_event>>
    /\ UNCHANGED rest_vars

\* The position of the KeyboardInput handler after the update of
\* pressed_keys: OnChar for a press that carries text, else done.
AfterUpdate(e) ==
    IF e.state = "Pressed" /\ e.text THEN Some([e EXCEPT !.stage = "char"]) ELSE None

\* The pressed-key set after the event e: insert on a press, remove on a
\* release.
UpdatePressed(keys, e) ==
    IF e.state = "Pressed" THEN keys \cup {e.key} ELSE keys \ {e.key}

\* WindowEvent::KeyboardInput arrives for a key pob_key_name names.
KeyboardInput ==
    /\ script = "none"
    /\ event = None
    /\ \E key \in KeyNames, state \in ElementStates, txt \in BOOLEAN :
          /\ event' = Some([key |-> key, state |-> state, text |-> txt, stage |-> "key"])
          /\ last_event' = [last_event EXCEPT ![key] = state]
    /\ UNCHANGED <<main_object, main_object_locked, script, pressed_keys, is_key_down>>
    /\ UNCHANGED rest_vars

\* LuaHost::callback_args for the event being handled ("OnKeyDown" or
\* "OnKeyUp" at stage key, "OnChar" at stage char): lock main_object, return
\* when it is None or has no such function, else call the function with the
\* guard alive.
CallbackArgs ==
    /\ script = "none"
    /\ event # None
    /\ event[2].stage \in {"key", "char"}
    /\ \E defined \in BOOLEAN :
          IF main_object # None /\ defined
          THEN /\ main_object_locked' = TRUE
               /\ script' = "callback"
               /\ is_key_down' = None
               /\ UNCHANGED event
          ELSE /\ event' = (IF event[2].stage = "key"
                            THEN Some([event[2] EXCEPT !.stage = "update"])
                            ELSE None)
               /\ UNCHANGED <<main_object_locked, script, is_key_down>>
    /\ UNCHANGED <<main_object, pressed_keys, last_event>>
    /\ UNCHANGED rest_vars

\* LuaHost::callback ("OnInit", "OnFrame", "OnMouseMove"), outside a keyboard
\* event, with a main object that has the function.
Callback ==
    /\ script = "none"
    /\ event = None
    /\ main_object # None
    /\ main_object_locked' = TRUE
    /\ script' = "callback"
    /\ is_key_down' = None
    /\ UNCHANGED <<main_object, event, pressed_keys, last_event>>
    /\ UNCHANGED rest_vars

\* The function the callback called returns; the guard is dropped.
CallbackReturn ==
    /\ script = "callback"
    /\ script' = "none"
    /\ main_object_locked' = FALSE
    /\ event' = (IF event = None THEN None
                 ELSE IF event[2].stage = "key"
                      THEN Some([event[2] EXCEPT !.stage = "update"])
                      ELSE None)
    /\ UNCHANGED <<main_object, pressed_keys, last_event, is_key_down>>
    /\ UNCHANGED rest_vars

\* The KeyboardInput handler after callback_args returned: the key is
\* inserted into or removed from pressed_keys.
UpdatePressedKeys ==
    /\ script = "none"
    /\ event # None
    /\ event[2].stage = "update"
    /\ pressed_keys' = UpdatePressed(pressed_keys, event[2])
    /\ event' = AfterUpdate(event[2])
    /\ UNCHANGED <<main_object, main_object_locked, script, last_event, is_key_down>>
    /\ UNCHANGED rest_vars

NextEvents ==
    \/ LaunchReturn
    \/ SetMainObject
    \/ IsKeyDown
    \/ KeyboardInput
    \/ CallbackArgs
    \/ Callback
    \/ CallbackReturn
    \/ UpdatePressedKeys

SpecEvents == InitEvents /\ [][NextEvents]_vars

(***************************************************************************)
(* C36  Callbacks cannot deadlock on the main object.                      *)
(***************************************************************************)
\* C36: a host function the script calls while a callback is dispatched
\* completes: the thread is never blocked on, nor panicking at, the
\* main_object lock it holds itself.
C36_NoSelfDeadlock == ~(main_object_locked /\ script \in {"blocked", "panicked"})

(***************************************************************************)
(* C39  The pressed-key set tracks keyboard events.                        *)
(***************************************************************************)
\* C39: every IsKeyDown(k) returns TRUE exactly when the latest keyboard
\* event delivered for k was a press, the event whose callback is running
\* included.
C39_KeySetTracksEvents ==
    [][ (is_key_down' # is_key_down /\ is_key_down' # None) =>
           LET key == is_key_down'[2][1]
               result == is_key_down'[2][2]
           IN  result = (last_event[key] = "Pressed") ]_vars

(***************************************************************************)
(* C37  Commands snapshot the draw state.                                  *)
(***************************************************************************)
\* C37: a step that queues a Rect or a Quad queues it with the colour and
\* the viewport the host holds at that moment, which are white and no clip
\* as long as no SetDrawColor or SetViewport call was made; a step that
\* changes the colour or the viewport changes no command in the draw queue
\* or in the list of the frame being drawn.
C37_Snapshot ==
    [][ /\ Len(appended') > Len(appended) =>
              LET item == appended'[Len(appended')]
              IN  /\ item.color = color
                  /\ item.clip = viewport
                  /\ draw_queue' = Append(draw_queue, item)
        /\ (color' # color \/ viewport' # viewport) =>
              /\ draw_queue' = draw_queue
              /\ all_cmds' = all_cmds
        /\ sets_made' = 0 => (color' = White /\ viewport' = None) ]_vars

\* C37 witness: SetDrawColor(red), DrawImage, SetViewport(0, 0, 2, 1),
\* DrawImageQuad: the queue holds a red rectangle without clip and a red quad
\* with the clip.
C37_Witness ==
    /\ Len(draw_queue) = 2
    /\ draw_queue = appended
    /\ draw_queue[1].kind = "Rect"
    /\ draw_queue[1].color = Red /\ draw_queue[1].clip = None
    /\ draw_queue[2].kind = "Quad"
    /\ draw_queue[2].color = Red /\ draw_queue[2].clip = Some(ClipA)
    /\ color = Red /\ viewport = Some(ClipA)
    /\ sets_made = 2

(***************************************************************************)
(* C38  Scissor rectangles and the render target.                          *)
(***************************************************************************)
\* C38: every scissor rectangle (x, y, w, h) set in a pass lies inside the
\* render target: x + w <= screen width and y + h <= screen height.
C38_ScissorInsideTarget ==
    \A k \in DOMAIN Scissors(pass) :
       LET r == Scissors(pass)[k].rect
       IN  r[1] + r[3] <= screen_size[1] /\ r[2] + r[4] <= screen_size[2]

====
